---- MODULE Spec2Model ----
(***************************************************************************)
(* Gamification engine of the study-buddy backend: XP calculation, level   *)
(* resolution, streak tracking and progress updates against the "users"    *)
(* table, modelled from app/services/gamification_service.py, and the      *)
(* review scheduling of app/routers/cards.py.                              *)
(*                                                                         *)
(* Every store request (select / update / insert ... .execute()) is one    *)
(* atomic step; a handler is the sequence of its store requests, so two    *)
(* handler runs (two service instances, or a request and a background      *)
(* task) interleave at request granularity.                                *)
(*                                                                         *)
(* Calendar dates are day ordinals (date.toordinal()), so                  *)
(* last_study_date + timedelta(days=1) is ordinal + 1.  An ISO date string *)
(* is the one-element sequence <<ordinal>>; Python's None is <<>>, which   *)
(* is falsy like None in `if last_study:`.                                 *)
(***************************************************************************)
EXTENDS Integers, Sequences, FiniteSets, Bags, TLC

(***************************************************************************)
(* Bounds of the model.                                                    *)
(***************************************************************************)
MaxDay == 3
MaxXP == 250
MaxLevelXP == 30100
MaxTime == 21
MaxStreakIn == 12
MaxAcc == 25
MaxTicks == 2
MaxSessions == 5
MaxConcurrentSessions == 1
MaxFailSessions == 3
MaxSessionRecords == 2
MaxReviews == 60

\* accuracy rates are drawn in steps of 1 / AccDen
AccDen == 20

Procs == {"p1", "p2"}
UserIds == {"u1", "u2"}
XpEarnedChoices == {0, 125}

None == <<>>

VARIABLES
    users,      \* the "users" table: id -> row (progress fields only)
    day,        \* the wall clock's calendar date, as an ordinal
    pc,         \* per process: position inside the handler it runs
    upp,        \* per process: locals of update_user_progress
    ret,        \* the call the step just taken finished, if any: its locals and
                \* the value it returned or the error it raised
    xpc,        \* arguments and result of a calculate_xp evaluation
    lvl,        \* argument and result of a _calculate_level evaluation
    nrd,        \* arguments and result of a calculate_next_review_date evaluation
    study_sessions, \* the "study_sessions" table: a bag of rows
    achievements,   \* the "achievements" table: a bag of rows
    tick,       \* the wall clock, as the index of a time of TimeAt
    tz,         \* the server's local time zone, in hours east of UTC
    cbe,        \* per process: locals of check_badge_eligibility and its caller
    quiet,      \* a check_badge_eligibility run for "u1" has returned and no
                \* study session was recorded since
    flashcards, \* the "flashcards" table: id -> row
    sub,        \* per process: locals of submit_answer
    dates       \* history: the dates that calls of update_user_progress which
                \* SpecStreak follows sampled as today

progressVars == <<users, day, upp, dates>>
cardVars == <<flashcards, sub>>
pureVars == <<xpc, lvl, nrd, cardVars>>
badgeVars == <<study_sessions, achievements, tick, tz, cbe, quiet>>

vars == <<users, day, pc, upp, ret, xpc, lvl, nrd,
          study_sessions, achievements, tick, tz, cbe, quiet, flashcards, sub, dates>>

(***************************************************************************)
(* _calculate_level                                                        *)
(***************************************************************************)
\* thresholds with a gap of 50 XP between levels 2 and 3
level_thresholds_close == <<0, 100, 150, 500, 1000, 2000, 4000, 8000, 15000, 30000>>

level_thresholds == <<0, 100, 250, 500, 1000, 2000, 4000, 8000, 15000, 30000>>

Max(a, b) == IF a >= b THEN a ELSE b
Min(a, b) == IF a <= b THEN a ELSE b

\* for level, threshold in enumerate(level_thresholds): level is the 0-based
\* position, i.e. the 1-based index i of the sequence minus one.
RECURSIVE LevelScan(_, _)
LevelScan(xp_points, i) ==
    IF i > Len(level_thresholds) THEN Len(level_thresholds)
    ELSE IF xp_points < level_thresholds[i] THEN Max(1, i - 1)
    ELSE LevelScan(xp_points, i + 1)

\* the comparison of line 263 taken as <=: a threshold reached is not yet passed
RECURSIVE LevelScanLe(_, _)
LevelScanLe(xp_points, i) ==
    IF i > Len(level_thresholds) THEN Len(level_thresholds)
    ELSE IF xp_points <= level_thresholds[i] THEN Max(1, i - 1)
    ELSE LevelScanLe(xp_points, i + 1)

calculate_level_le(xp_points) == LevelScanLe(xp_points, 1)

_calculate_level(xp_points) == LevelScan(xp_points, 1)

(***************************************************************************)
(* Python floats (IEEE-754 binary64, round to nearest, ties to even), for  *)
(* the non-negative normal values the engine computes with.  A float is    *)
(* [m, e], the value m * 2^e, with 2^52 <= m < 2^53 or m = 0; m is a       *)
(* little-endian sequence of MantLimbs limbs of LimbBits bits each.        *)
(***************************************************************************)
LimbBits == 14
MantLimbs == 4
MantBits == 53

Base == 2 ^ LimbBits

Zeros(n) == [i \in 1..n |-> 0]

\* propagate carries through limbs that may exceed Base
RECURSIVE BigCarry(_, _)
BigCarry(a, c) ==
    IF a = <<>>
    THEN (IF c = 0 THEN <<>> ELSE <<c % Base>> \o BigCarry(<<>>, c \div Base))
    ELSE LET t == Head(a) + c
         IN  <<t % Base>> \o BigCarry(Tail(a), t \div Base)

IntToBig(n) == BigCarry(<<>>, n)

BigMulSmall(a, s) == BigCarry([i \in 1..Len(a) |-> a[i] * s], 0)

BigAdd(a, b) ==
    LET n == Max(Len(a), Len(b))
    IN  BigCarry([i \in 1..n |-> (IF i <= Len(a) THEN a[i] ELSE 0)
                                 + (IF i <= Len(b) THEN b[i] ELSE 0)], 0)

RECURSIVE BigMul(_, _)
BigMul(a, b) ==
    IF a = <<>> THEN <<>>
    ELSE BigAdd(BigMulSmall(b, Head(a)), <<0>> \o BigMul(Tail(a), b))

RECURSIVE SmallBitLen(_)
SmallBitLen(n) == IF n = 0 THEN 0 ELSE 1 + SmallBitLen(n \div 2)

BigBitLen(a) ==
    LET nz == {i \in 1..Len(a) : a[i] # 0}
    IN  IF nz = {} THEN 0
        ELSE LET h == CHOOSE i \in nz : \A j \in nz : j <= i
             IN  LimbBits * (h - 1) + SmallBitLen(a[h])

\* bit i (0 = least significant)
BigBit(a, i) ==
    LET k == i \div LimbBits + 1
    IN  IF k > Len(a) THEN 0 ELSE (a[k] \div 2 ^ (i % LimbBits)) % 2

\* some bit below position i is set
BigLowNonzero(a, i) ==
    \E k \in 1..Len(a) :
        \/ k < i \div LimbBits + 1 /\ a[k] # 0
        \/ k = i \div LimbBits + 1 /\ a[k] % 2 ^ (i % LimbBits) # 0

BigShr(a, k) ==
    LET d == k \div LimbBits
        b == k % LimbBits
        t == IF d >= Len(a) THEN <<>> ELSE SubSeq(a, d + 1, Len(a))
    IN  [i \in 1..Len(t) |->
            t[i] \div 2 ^ b
            + (IF i < Len(t) THEN (t[i + 1] % 2 ^ b) * 2 ^ (LimbBits - b) ELSE 0)]

BigShl(a, k) == Zeros(k \div LimbBits) \o BigMulSmall(a, 2 ^ (k % LimbBits))

\* quotient of a by the small divisor d, and whether the division is exact
RECURSIVE BigDivSmall(_, _, _)
BigDivSmall(a, d, r) ==
    IF a = <<>> THEN [q |-> <<>>, exact |-> r = 0]
    ELSE LET n == Len(a)
             t == r * Base + a[n]
             rest == BigDivSmall(SubSeq(a, 1, n - 1), d, t % d)
         IN  [q |-> Append(rest.q, t \div d), exact |-> rest.exact]

RECURSIVE BigToInt(_)
BigToInt(a) == IF a = <<>> THEN 0 ELSE Head(a) + Base * BigToInt(Tail(a))

Mant(a) == [i \in 1..MantLimbs |-> IF i <= Len(a) THEN a[i] ELSE 0]

FZero == [m |-> Zeros(MantLimbs), e |-> 0]

\* the float nearest to n * 2^e (ties to even), in steps: q2 is the mantissa
\* after rounding, and one bit longer than MantBits when the rounding carried
Round53Carry(q2, e, k) ==
    IF BigBitLen(q2) > MantBits
    THEN [m |-> Mant(BigShr(q2, 1)), e |-> e + k + 1]
    ELSE [m |-> Mant(q2), e |-> e + k]

\* q is n without its low k bits; it goes up by one when the dropped bits are
\* above one half, or are one half and q is odd
Round53Drop(n, e, k, q) ==
    Round53Carry(IF /\ BigBit(n, k - 1) = 1
                    /\ (BigLowNonzero(n, k - 1) \/ BigBit(q, 0) = 1)
                 THEN BigAdd(q, <<1>>)
                 ELSE q,
                 e, k)

\* n has len bits
Round53Len(n, e, len) ==
    IF len = 0 THEN FZero
    ELSE IF len <= MantBits
    THEN [m |-> Mant(BigShl(n, MantBits - len)), e |-> e - (MantBits - len)]
    ELSE Round53Drop(n, e, len - MantBits, BigShr(n, len - MantBits))

Round53(n, e) == Round53Len(n, e, BigBitLen(n))

\* float(n) for an int n >= 0
FInt(n) == Round53(IntToBig(n), 0)

\* the float nearest to n / d: what a decimal literal such as 1.2 (12 / 10)
\* denotes; the inexact quotient keeps a sticky bit below the rounding position
FRat(n, d) ==
    LET dv == BigDivSmall(BigShl(IntToBig(n), 5 * LimbBits), d, 0)
    IN  Round53(BigAdd(BigShl(dv.q, 1), IF dv.exact THEN <<>> ELSE <<1>>),
                0 - (5 * LimbBits + 1))

FMul(x, y) == Round53(BigMul(x.m, y.m), x.e + y.e)

FAdd(x, y) ==
    LET emin == Min(x.e, y.e)
    IN  Round53(BigAdd(BigShl(x.m, x.e - emin), BigShl(y.m, y.e - emin)), emin)

\* a - b for big numbers a >= b
RECURSIVE BigBorrow(_, _, _)
BigBorrow(a, b, c) ==
    IF a = <<>> THEN <<>>
    ELSE LET t == Head(a) - (IF b = <<>> THEN 0 ELSE Head(b)) - c
         IN  <<t % Base>> \o BigBorrow(Tail(a), IF b = <<>> THEN <<>> ELSE Tail(b),
                                       IF t < 0 THEN 1 ELSE 0)

BigSub(a, b) == BigBorrow(a, b, 0)

\* x - y for x >= y
FSub(x, y) ==
    LET emin == Min(x.e, y.e)
    IN  Round53(BigSub(BigShl(x.m, x.e - emin), BigShl(y.m, y.e - emin)), emin)

\* x < y, for normalised non-negative floats
FLess(x, y) ==
    IF BigBitLen(y.m) = 0 THEN FALSE
    ELSE IF BigBitLen(x.m) = 0 THEN TRUE
    ELSE IF x.e # y.e THEN x.e < y.e
    ELSE \E i \in 1..MantLimbs :
             /\ x.m[i] < y.m[i]
             /\ \A j \in (i + 1)..MantLimbs : x.m[j] = y.m[j]

\* Python's min(x, y): y unless x < y ... min returns the first minimal argument
FMin(x, y) == IF FLess(y, x) THEN y ELSE x

\* int(x): truncation towards zero of a float below 2^31
FTrunc(x) ==
    IF x.e >= 0 THEN BigToInt(BigShl(x.m, x.e)) ELSE BigToInt(BigShr(x.m, 0 - x.e))

(***************************************************************************)
(* calculate_xp                                                            *)
(*                                                                         *)
(* accuracy_rate is passed as the pair of small integers <<n, d>> and is   *)
(* the float nearest to n / d.                                             *)
(***************************************************************************)
Difficulties == {"easy", "medium", "hard"}

difficulty_multipliers(difficulty) ==
    CASE difficulty = "easy" -> FRat(10, 10)
      [] difficulty = "medium" -> FRat(15, 10)
      [] difficulty = "hard" -> FRat(20, 10)

speed_bonus_of(time_taken) ==
    IF time_taken < 5 THEN FRat(15, 10)
    ELSE IF time_taken < 10 THEN FRat(12, 10)
    ELSE IF time_taken < 20 THEN FRat(10, 10)
    ELSE FRat(8, 10)

accuracy_bonus_of(accuracy_rate) ==
    FMin(FMul(accuracy_rate, FRat(12, 10)), FRat(15, 10))

streak_bonus_of(current_streak) ==
    FMin(FAdd(FInt(1), FMul(FInt(current_streak), FRat(1, 10))), FRat(20, 10))

\* the early return of lines 32-40 handing out the base XP for taking part
calculate_xp_base_for_wrong(correct, difficulty, time_taken, current_streak, accuracy_rate) ==
    [base_xp |-> 10,
     difficulty_multiplier |-> IF correct THEN difficulty_multipliers(difficulty) ELSE FInt(0),
     accuracy_bonus |-> IF correct THEN accuracy_bonus_of(accuracy_rate) ELSE FInt(0),
     speed_bonus |-> IF correct THEN speed_bonus_of(time_taken) ELSE FInt(0),
     streak_bonus |-> IF correct THEN streak_bonus_of(current_streak) ELSE FInt(0),
     total_xp |-> IF correct
                  THEN FTrunc(FMul(FMul(FMul(FMul(FInt(10), difficulty_multipliers(difficulty)),
                                                 speed_bonus_of(time_taken)),
                                            accuracy_bonus_of(accuracy_rate)),
                                       streak_bonus_of(current_streak)))
                  ELSE 0]

calculate_xp(correct, difficulty, time_taken, current_streak, accuracy_rate) ==
    IF ~correct
    THEN [base_xp |-> 0, difficulty_multiplier |-> FInt(0), accuracy_bonus |-> FInt(0),
          speed_bonus |-> FInt(0), streak_bonus |-> FInt(0), total_xp |-> 0]
    ELSE LET base_xp == 10
             difficulty_mult == difficulty_multipliers(difficulty)
             speed_bonus == speed_bonus_of(time_taken)
             accuracy_bonus == accuracy_bonus_of(accuracy_rate)
             streak_bonus == streak_bonus_of(current_streak)
         IN  [base_xp |-> base_xp,
              difficulty_multiplier |-> difficulty_mult,
              accuracy_bonus |-> accuracy_bonus,
              speed_bonus |-> speed_bonus,
              streak_bonus |-> streak_bonus,
              total_xp |-> FTrunc(FMul(FMul(FMul(FMul(FInt(base_xp), difficulty_mult),
                                                 speed_bonus),
                                            accuracy_bonus),
                                       streak_bonus))]

(***************************************************************************)
(* calculate_next_review_date (routers/cards.py)                           *)
(*                                                                         *)
(* timedelta(days=x) for a float x is what CPython's delta_new computes:   *)
(* the whole days exactly, the fraction of a day times 86400e6 as a float  *)
(* product, its whole microseconds, and the rest rounded half to even.     *)
(* A timedelta is [days, seconds, microseconds], normalised.               *)
(***************************************************************************)
\* the low k bits of a
BigMask(a, k) ==
    [i \in 1..Len(a) |->
        IF i < k \div LimbBits + 1 THEN a[i]
        ELSE IF i = k \div LimbBits + 1 THEN a[i] % 2 ^ (k % LimbBits)
        ELSE 0]

\* remainder of a by the small divisor d
RECURSIVE BigModSmall(_, _, _)
BigModSmall(a, d, r) ==
    IF a = <<>> THEN r
    ELSE LET n == Len(a)
         IN  BigModSmall(SubSeq(a, 1, n - 1), d, (r * Base + a[n]) % d)

\* microseconds of a day
us_per_day == BigMul(IntToBig(86400), IntToBig(1000000))

\* modf(x): the fractional part, as a float
FFrac(x) == IF x.e >= 0 THEN FZero ELSE Round53(BigMask(x.m, 0 - x.e), x.e)

\* modf(x): the integral part, as an unbounded integer
FWhole(x) == IF x.e >= 0 THEN BigShl(x.m, x.e) ELSE BigShr(x.m, 0 - x.e)

\* a count of microseconds below one day and a bit, split into seconds and
\* microseconds
SplitUs(days, us) ==
    LET q1 == BigDivSmall(us, 1000, 0).q
        r1 == BigModSmall(us, 1000, 0)
        q2 == BigDivSmall(q1, 1000, 0).q
        r2 == BigModSmall(q1, 1000, 0)
        secs == BigToInt(q2)
    IN  [days |-> days + secs \div 86400, seconds |-> secs % 86400,
         microseconds |-> 1000 * r2 + r1]

\* timedelta(days=x) for a float x >= 0
timedelta_days(x) ==
    LET days == FTrunc(x)
        dnum == FMul(Round53(us_per_day, 0), FFrac(x))
        whole == FWhole(dnum)
        half == 0 - dnum.e - 1
        \* the leftover is above one half, or is one half and the sum is odd
        up == /\ dnum.e < 0
              /\ BigBit(dnum.m, half) = 1
              /\ (BigLowNonzero(dnum.m, half) \/ BigBit(whole, 0) = 1)
    IN  SplitUs(days, IF up THEN BigAdd(whole, <<1>>) ELSE whole)

\* the cap of line 277 left out
interval_days_uncapped(performance_score, times_reviewed) ==
    LET performance_factor == FAdd(FInt(1), FMul(performance_score, FInt(2)))
        review_factor == FAdd(FInt(1), FMul(FInt(times_reviewed), FRat(5, 10)))
    IN  FMul(FMul(FInt(1), performance_factor), review_factor)

interval_days_of(performance_score, times_reviewed) ==
    LET base_interval == FInt(1)
        performance_factor == FAdd(FInt(1), FMul(performance_score, FInt(2)))
        review_factor == FAdd(FInt(1), FMul(FInt(times_reviewed), FRat(5, 10)))
        interval_days == FMul(FMul(base_interval, performance_factor), review_factor)
    IN  FMin(interval_days, FInt(30))

\* the offset of the returned date from datetime.utcnow()
calculate_next_review_date(performance_score, times_reviewed) ==
    LET interval_days == interval_days_of(performance_score, times_reviewed)
    IN  [interval_days |-> interval_days, delta |-> timedelta_days(interval_days)]

(***************************************************************************)
(* The users table and register_user                                       *)
(***************************************************************************)
\* the progress fields of the row register_user inserts
new_user ==
    [xp_points |-> 0, level |-> 1, current_streak |-> 0, last_study_date |-> None]

isoformat(d) == <<d>>
fromisoformat(s) == s[1]

\* the select handing back a default row for an id the table does not hold
SelectUser_default_row(user_id) ==
    IF user_id \in DOMAIN users THEN <<users[user_id]>> ELSE <<new_user>>

\* db.table("users").select("*").eq("id", user_id).execute().data
SelectUser(user_id) ==
    IF user_id \in DOMAIN users THEN <<users[user_id]>> ELSE <<>>

(***************************************************************************)
(* update_user_progress                                                    *)
(***************************************************************************)
NoCall == [user_id |-> "", xp_earned |-> 0, correct |-> FALSE,
           user |-> new_user, today |-> 0, update_data |-> new_user]

NoRet == [kind |-> "none"]

\* the last branch of lines 111-113 going on with the streak after a gap
new_streak_gap_continues(last_study, current_streak, today, correct) ==
    IF last_study # None
    THEN IF today = fromisoformat(last_study) THEN current_streak
         ELSE (IF correct THEN current_streak + 1 ELSE 0)
    ELSE (IF correct THEN 1 ELSE 0)

\* the same-day branch of lines 105-107 counting every correct answer
new_streak_same_day_counts(last_study, current_streak, today, correct) ==
    IF last_study # None
    THEN LET last_study_date == fromisoformat(last_study)
         IN  IF today = last_study_date \/ today = last_study_date + 1
             THEN (IF correct THEN current_streak + 1 ELSE 0)
             ELSE (IF correct THEN 1 ELSE 0)
    ELSE (IF correct THEN 1 ELSE 0)

\* the next-day branch of lines 108-110 keeping the streak on a wrong answer
new_streak_wrong_keeps(last_study, current_streak, today, correct) ==
    IF last_study # None
    THEN LET last_study_date == fromisoformat(last_study)
         IN  IF today = last_study_date THEN current_streak
             ELSE IF today = last_study_date + 1
                  THEN (IF correct THEN current_streak + 1 ELSE current_streak)
                  ELSE (IF correct THEN 1 ELSE 0)
    ELSE (IF correct THEN 1 ELSE 0)

\* lines 102-116: the streak written for a call that read `user`
new_streak_of(last_study, current_streak, today, correct) ==
    IF last_study # None
    THEN LET last_study_date == fromisoformat(last_study)
         IN  IF today = last_study_date THEN current_streak
             ELSE IF today = last_study_date + 1
                  THEN (IF correct THEN current_streak + 1 ELSE 0)
                  ELSE (IF correct THEN 1 ELSE 0)
    ELSE (IF correct THEN 1 ELSE 0)

\* line 98 computing the level from the XP read instead of the new total
update_data_stale_level(user, xp_earned, correct, today) ==
    [xp_points |-> user.xp_points + xp_earned,
     level |-> _calculate_level(user.xp_points),
     current_streak |-> new_streak_of(user.last_study_date,
                                      user.current_streak, today, correct),
     last_study_date |-> isoformat(today)]

\* lines 94-98 and 119-124: the row written
update_data_of(user, xp_earned, correct, today) ==
    LET new_xp == user.xp_points + xp_earned
    IN  [xp_points |-> new_xp,
         level |-> _calculate_level(new_xp),
         current_streak |-> new_streak_of(user.last_study_date,
                                          user.current_streak, today, correct),
         last_study_date |-> isoformat(today)]

\* line 134 reporting a streak that merely did not grow as broken
progress_result_broken_unless_grown(c) ==
    [xp_earned |-> c.xp_earned,
     total_xp |-> c.update_data.xp_points,
     level |-> c.update_data.level,
     level_up |-> c.update_data.level > c.user.level,
     streak |-> c.update_data.current_streak,
     streak_broken |-> c.update_data.current_streak <= c.user.current_streak]

\* lines 128-135: the returned summary
progress_result(c) ==
    [xp_earned |-> c.xp_earned,
     total_xp |-> c.update_data.xp_points,
     level |-> c.update_data.level,
     level_up |-> c.update_data.level > c.user.level,
     streak |-> c.update_data.current_streak,
     streak_broken |-> c.update_data.current_streak < c.user.current_streak]

\* lines 84-92: read the row, or raise ValueError("User not found"); the
\* caller is at position `at`
UppReadAt(p, at, user_id, xp_earned, correct) ==
    /\ pc[p] = at
    /\ LET data == SelectUser(user_id)
       IN  IF data = <<>>
           THEN /\ ret' = [kind |-> "raised", by |-> p, op |-> "update_user_progress",
                            call |-> [NoCall EXCEPT !.user_id = user_id,
                                                    !.xp_earned = xp_earned,
                                                    !.correct = correct],
                            error |-> "User not found"]
                /\ pc' = [pc EXCEPT ![p] = "idle"]
                /\ UNCHANGED upp
           ELSE /\ data[1].xp_points + xp_earned <= MaxXP
                /\ upp' = [upp EXCEPT ![p] = [NoCall EXCEPT !.user_id = user_id,
                                                            !.xp_earned = xp_earned,
                                                            !.correct = correct,
                                                            !.user = data[1]]]
                /\ pc' = [pc EXCEPT ![p] = "upp_compute"]
                /\ ret' = NoRet
    /\ UNCHANGED <<users, day, dates, pureVars, badgeVars>>

\* a call of the service function on its own
UppRead(p, user_id, xp_earned, correct) ==
    UppReadAt(p, "idle", user_id, xp_earned, correct)

\* lines 94-124: sample the clock, compute the new row
UppComputeRow(p) ==
    /\ pc[p] = "upp_compute"
    /\ upp' = [upp EXCEPT ![p].today = day,
                          ![p].update_data =
                              update_data_of(upp[p].user, upp[p].xp_earned,
                                             upp[p].correct, day)]
    /\ pc' = [pc EXCEPT ![p] = "upp_write"]
    /\ ret' = NoRet
    /\ UNCHANGED <<users, day, pureVars, badgeVars>>

UppCompute(p) ==
    /\ UppComputeRow(p)
    /\ UNCHANGED dates

\* the same step, with the date it sampled added to the history
UppComputeDated(p) ==
    /\ UppComputeRow(p)
    /\ dates' = dates \cup {day}

\* lines 119-126 sending xp_points and level only
UppWrite_without_streak(p) ==
    /\ pc[p] = "upp_write"
    /\ users' = [u \in DOMAIN users |->
                    IF u = upp[p].user_id
                    THEN [users[u] EXCEPT
                              !.xp_points = upp[p].update_data.xp_points,
                              !.level = upp[p].update_data.level]
                    ELSE users[u]]
    /\ ret' = [kind |-> "ok", by |-> p, op |-> "update_user_progress",
               call |-> upp[p], value |-> progress_result(upp[p])]
    /\ pc' = [pc EXCEPT ![p] = "idle"]
    /\ upp' = [upp EXCEPT ![p] = NoCall]
    /\ UNCHANGED <<day, dates, pureVars, badgeVars>>

\* line 126 as an increment the store applies to the row it holds
UppWrite_increment(p) ==
    /\ pc[p] = "upp_write"
    /\ users' = [u \in DOMAIN users |->
                    IF u = upp[p].user_id
                    THEN [upp[p].update_data EXCEPT
                              !.xp_points = users[u].xp_points + upp[p].xp_earned]
                    ELSE users[u]]
    /\ ret' = [kind |-> "ok", by |-> p, op |-> "update_user_progress",
               call |-> upp[p], value |-> progress_result(upp[p])]
    /\ pc' = [pc EXCEPT ![p] = "idle"]
    /\ upp' = [upp EXCEPT ![p] = NoCall]
    /\ UNCHANGED <<day, dates, pureVars, badgeVars>>

\* line 126: one update request carrying the four fields; lines 128-135
UppWrite(p) ==
    /\ pc[p] = "upp_write"
    /\ users' = [u \in DOMAIN users |->
                    IF u = upp[p].user_id THEN upp[p].update_data ELSE users[u]]
    /\ ret' = [kind |-> "ok", by |-> p, op |-> "update_user_progress",
               call |-> upp[p], value |-> progress_result(upp[p])]
    /\ pc' = [pc EXCEPT ![p] = "idle"]
    /\ upp' = [upp EXCEPT ![p] = NoCall]
    /\ UNCHANGED <<day, dates, pureVars, badgeVars>>

update_user_progress(p) ==
    \/ \E user_id \in UserIds, xp_earned \in XpEarnedChoices, correct \in BOOLEAN :
           UppRead(p, user_id, xp_earned, correct)
    \/ UppCompute(p)
    \/ UppWrite(p)

\* the wall clock passes midnight
AdvanceDay ==
    /\ day < MaxDay
    /\ day' = day + 1
    /\ ret' = NoRet
    /\ UNCHANGED <<users, pc, upp, dates, pureVars, badgeVars>>

(***************************************************************************)
(* The clock of the session and badge handlers.  Times are whole hours     *)
(* since midnight UTC of day 0; the clock visits 07:00 and 22:00 of day 0, *)
(* 08:00 and 23:00 of day 7, 09:00 of day 14, ...                          *)
(***************************************************************************)
TimeAt(i) == 7 + 15 * (i % 2) + 169 * (i \div 2)

\* datetime.utcnow() and datetime.now()
utcnow == TimeAt(tick)
localnow == TimeAt(tick) + tz

\* the hour of the server's local time instead of the stored UTC time
HourOf_local(t) == (t + tz) % 24

HourOf(t) == t % 24

\* timedelta.days of a non-negative difference of two times
DaysOf(dt) == dt \div 24

(***************************************************************************)
(* check_badge_eligibility and _award_badge                                *)
(***************************************************************************)
\* the keys of badge_requirements, in the dict's (insertion) order
BadgeOrder == <<"first_steps", "fire_scholar", "knowledge_wizard", "speed_demon",
                "perfectionist", "early_bird", "night_owl", "comeback_kid">>

badge_requirements(badge_type) ==
    CASE badge_type = "first_steps" -> [type |-> "first_answer", requirement |-> 1]
      [] badge_type = "fire_scholar" -> [type |-> "streak", requirement |-> 7]
      [] badge_type = "knowledge_wizard" -> [type |-> "correct_answers", requirement |-> 100]
      [] badge_type = "speed_demon" -> [type |-> "speed_round", requirement |-> 10]
      [] badge_type = "perfectionist" -> [type |-> "perfect_accuracy", requirement |-> 20]
      [] badge_type = "early_bird" -> [type |-> "early_study", requirement |-> 5]
      [] badge_type = "night_owl" -> [type |-> "late_study", requirement |-> 5]
      [] badge_type = "comeback_kid" -> [type |-> "return_after_break", requirement |-> 7]

\* the select without its .eq("user_id", user_id) filter
SelectSessions_all_users(user_id) == study_sessions

\* db.table("study_sessions").select(...).eq("user_id", user_id): the rows, as a bag
SelectSessions(user_id) ==
    LET rows == {r \in BagToSet(study_sessions) : r.user_id = user_id}
    IN  [r \in rows |-> CopiesIn(r, study_sessions)]

\* the number of rows of the bag b that are in the set S
RECURSIVE CountRows(_, _)
CountRows(b, S) ==
    IF S = {} THEN 0
    ELSE LET r == CHOOSE x \in S : TRUE
         IN  b[r] + CountRows(b, S \ {r})

\* sum([session.get("correct_answers", 0) for session in data])
RECURSIVE SumCorrectOver(_, _)
SumCorrectOver(b, S) ==
    IF S = {} THEN 0
    ELSE LET r == CHOOSE x \in S : TRUE
         IN  b[r] * r.correct_answers + SumCorrectOver(b, S \ {r})

SumCorrect(b) == SumCorrectOver(b, DOMAIN b)

\* the two latest distinct creation times instead of the two latest rows
LatestTwo_distinct(b) ==
    LET times == {r.created_at : r \in DOMAIN b}
        Newest(T) == CHOOSE t \in T : \A o \in T : o <= t
    IN  IF times = {} THEN <<>>
        ELSE LET first == Newest(times)
             IN  IF times = {first} THEN <<first>>
                 ELSE <<first, Newest(times \ {first})>>

\* .order("created_at", desc=True).limit(2): the created_at of the rows returned
LatestTwo(b) ==
    LET times == {r.created_at : r \in DOMAIN b}
        Newest(T) == CHOOSE t \in T : \A o \in T : o <= t
    IN  IF times = {} THEN <<>>
        ELSE LET first == Newest(times)
             IN  IF CountRows(b, {r \in DOMAIN b : r.created_at = first}) >= 2
                 THEN <<first, first>>
                 ELSE IF times = {first} THEN <<first>>
                 ELSE <<first, Newest(times \ {first})>>

\* lines 160-226: the value of `earned` for one badge, from the user row read
\* at the start and the store as it is when the badge's select runs
Earned(badge_type, user, user_id) ==
    LET requirements == badge_requirements(badge_type)
        sessions == SelectSessions(user_id)
    IN  CASE requirements.type = "first_answer" ->
                 BagCardinality(sessions) >= requirements.requirement
          [] requirements.type = "streak" ->
                 user.current_streak >= requirements.requirement
          [] requirements.type = "correct_answers" ->
                 SumCorrect(sessions) >= requirements.requirement
          [] requirements.type = "speed_round" ->
                 \E session \in DOMAIN sessions :
                     /\ session.created_at >= localnow - 7 * 24
                     /\ session.cards_studied >= 10
                     /\ session.session_duration <= 60
          [] requirements.type = "perfect_accuracy" ->
                 \E session \in DOMAIN sessions :
                     /\ session.cards_studied >= 20
                     /\ session.accuracy_rate = FInt(1)
          [] requirements.type = "early_study" ->
                 CountRows(sessions, {session \in DOMAIN sessions :
                                         HourOf(session.created_at) < 8})
                     >= requirements.requirement
          [] requirements.type = "late_study" ->
                 CountRows(sessions, {session \in DOMAIN sessions :
                                         HourOf(session.created_at) >= 22})
                     >= requirements.requirement
          [] requirements.type = "return_after_break" ->
                 LET data == LatestTwo(sessions)
                 IN  /\ Len(data) >= 2
                     /\ DaysOf(data[1] - data[2]) >= requirements.requirement

\* the existing_badges read of lines 150-151 coming back empty
existing_badges_none(user_id) == {}

\* lines 150-151: the badge types of the user's achievement rows
existing_badges_of(user_id) ==
    {a.badge_type : a \in {r \in BagToSet(achievements) : r.user_id = user_id}}

NoCbe == [caller |-> "", user_id |-> "", user |-> new_user, existing_badges |-> {},
          idx |-> 0, new_badges |-> <<>>, quiet |-> FALSE, before |-> EmptyBag,
          session_data |-> <<>>, summary |-> <<>>]

\* lines 143-147: read the user row; an unknown user has no new badges
CbeReadUser(p) ==
    /\ pc[p] = "cbe_user"
    /\ LET data == SelectUser(cbe[p].user_id)
       IN  IF data = <<>>
           THEN /\ ret' = [kind |-> "ok", by |-> p, op |-> cbe[p].caller,
                           call |-> cbe[p], value |-> <<>>]
                /\ pc' = [pc EXCEPT ![p] = "idle"]
                /\ cbe' = [cbe EXCEPT ![p] = NoCbe]
           ELSE /\ cbe' = [cbe EXCEPT ![p].user = data[1]]
                /\ pc' = [pc EXCEPT ![p] = "cbe_existing"]
                /\ ret' = NoRet
    /\ UNCHANGED <<progressVars, pureVars, study_sessions, achievements, tick, tz, quiet>>

\* lines 150-151: read the badges the user holds
CbeReadExisting(p) ==
    /\ pc[p] = "cbe_existing"
    /\ cbe' = [cbe EXCEPT ![p].existing_badges = existing_badges_of(cbe[p].user_id),
                          ![p].idx = 1]
    /\ pc' = [pc EXCEPT ![p] = "cbe_eval"]
    /\ ret' = NoRet
    /\ UNCHANGED <<progressVars, pureVars, study_sessions, achievements, tick, tz, quiet>>

\* line 233, and the return of the caller: end_study_session (lines 336-345)
\* hands back its summary with the new badges, the background task nothing more
CbeFinish(p, c) ==
    /\ ret' = [kind |-> "ok", by |-> p, op |-> c.caller, call |-> c, value |-> c.new_badges]
    /\ pc' = [pc EXCEPT ![p] = "idle"]
    /\ cbe' = [cbe EXCEPT ![p] = NoCbe]
    /\ quiet' = IF c.user_id = "u1" THEN TRUE ELSE quiet

\* the loop moves on to the next badge, or the function returns after the last
CbeAdvance(p, c) ==
    IF c.idx = Len(BadgeOrder)
    THEN CbeFinish(p, c)
    ELSE /\ cbe' = [cbe EXCEPT ![p] = [c EXCEPT !.idx = c.idx + 1]]
         /\ pc' = [pc EXCEPT ![p] = "cbe_eval"]
         /\ ret' = NoRet
         /\ UNCHANGED quiet

\* lines 154-226: one pass of the loop up to `if earned:`
CbeEvaluate(p) ==
    /\ pc[p] = "cbe_eval"
    /\ LET badge_type == BadgeOrder[cbe[p].idx]
       IN  IF badge_type \in cbe[p].existing_badges
           THEN CbeAdvance(p, cbe[p])
           ELSE IF Earned(badge_type, cbe[p].user, cbe[p].user_id)
                THEN /\ pc' = [pc EXCEPT ![p] = "cbe_award"]
                     /\ ret' = NoRet
                     /\ UNCHANGED <<cbe, quiet>>
                ELSE CbeAdvance(p, cbe[p])
    /\ UNCHANGED <<progressVars, pureVars, study_sessions, achievements, tick, tz>>

\* lines 250-258: the row _award_badge inserts (its id is a fresh uuid)
achievement_data(user_id, badge_type) ==
    [user_id |-> user_id, badge_type |-> badge_type]

\* lines 228-231: _award_badge inserts the row, then the badge is appended
CbeAward(p) ==
    /\ pc[p] = "cbe_award"
    /\ LET badge_type == BadgeOrder[cbe[p].idx]
       IN  /\ achievements' = achievements
                  (+) SetToBag({achievement_data(cbe[p].user_id, badge_type)})
           /\ CbeAdvance(p, [cbe[p] EXCEPT !.new_badges = Append(@, badge_type)])
    /\ UNCHANGED <<progressVars, pureVars, study_sessions, tick, tz>>

\* the failure of the badge check undoing the insert of line 331
CbeRaise_rolls_back(p) ==
    /\ \/ pc[p] \in {"cbe_user", "cbe_existing", "cbe_award"}
       \/ /\ pc[p] = "cbe_eval"
          /\ BadgeOrder[cbe[p].idx] \notin cbe[p].existing_badges
          /\ badge_requirements(BadgeOrder[cbe[p].idx]).type # "streak"
    /\ ret' = [kind |-> "raised", by |-> p, op |-> cbe[p].caller, call |-> cbe[p],
               error |-> "store request failed"]
    /\ pc' = [pc EXCEPT ![p] = "idle"]
    /\ cbe' = [cbe EXCEPT ![p] = NoCbe]
    /\ study_sessions' = IF cbe[p].session_data = <<>> THEN study_sessions
                         ELSE study_sessions (-) SetToBag({cbe[p].session_data[1]})
    /\ UNCHANGED <<progressVars, pureVars, achievements, tick, tz, quiet>>

\* a store request of the run raises (the store or the network fails); nothing
\* in check_badge_eligibility, _award_badge or their callers catches it, so the
\* run ends there.  The streak rule sends no request.
CbeRaise(p) ==
    /\ \/ pc[p] \in {"cbe_user", "cbe_existing", "cbe_award"}
       \/ /\ pc[p] = "cbe_eval"
          /\ BadgeOrder[cbe[p].idx] \notin cbe[p].existing_badges
          /\ badge_requirements(BadgeOrder[cbe[p].idx]).type # "streak"
    /\ ret' = [kind |-> "raised", by |-> p, op |-> cbe[p].caller, call |-> cbe[p],
               error |-> "store request failed"]
    /\ pc' = [pc EXCEPT ![p] = "idle"]
    /\ cbe' = [cbe EXCEPT ![p] = NoCbe]
    /\ UNCHANGED <<progressVars, pureVars, study_sessions, achievements, tick, tz, quiet>>

\* the insert of line 258 is rejected with a conflict by a store that keeps
\* one row per (user_id, badge_type): the request raises like any other
CbeConflict(p) ==
    /\ pc[p] = "cbe_award"
    /\ BagIn(achievement_data(cbe[p].user_id, BadgeOrder[cbe[p].idx]), achievements)
    /\ ret' = [kind |-> "raised", by |-> p, op |-> cbe[p].caller, call |-> cbe[p],
               error |-> "conflict"]
    /\ pc' = [pc EXCEPT ![p] = "idle"]
    /\ cbe' = [cbe EXCEPT ![p] = NoCbe]
    /\ UNCHANGED <<progressVars, pureVars, study_sessions, achievements, tick, tz, quiet>>

check_badge_eligibility(p) ==
    \/ CbeReadUser(p)
    \/ CbeReadExisting(p)
    \/ CbeEvaluate(p)
    \/ CbeAward(p)

\* ai.py lines 17-22: the background task of generate-questions runs the check
check_ai_generation_achievements(p, user_id) ==
    /\ pc[p] = "idle"
    /\ cbe' = [cbe EXCEPT ![p] = [NoCbe EXCEPT !.caller = "check_ai_generation_achievements",
                                               !.user_id = user_id,
                                               !.quiet = quiet,
                                               !.before = achievements]]
    /\ pc' = [pc EXCEPT ![p] = "cbe_user"]
    /\ ret' = NoRet
    /\ UNCHANGED <<progressVars, pureVars, study_sessions, achievements, tick, tz, quiet>>

(***************************************************************************)
(* end_study_session                                                       *)
(***************************************************************************)
\* the (cards_studied, correct_answers, session_duration) a client reports
SessionInputs == {<<10, 5, 60>>, <<20, 20, 61>>}

\* lines 347-358
performance_message(accuracy_rate, cards_studied) ==
    IF ~FLess(accuracy_rate, FRat(9, 10)) /\ cards_studied >= 10 THEN "incredible"
    ELSE IF ~FLess(accuracy_rate, FRat(8, 10)) THEN "excellent"
    ELSE IF ~FLess(accuracy_rate, FRat(7, 10)) THEN "good"
    ELSE IF ~FLess(accuracy_rate, FRat(5, 10)) THEN "keep practicing"
    ELSE "don't give up"

\* line 316 dividing as integers
session_data_floor_division(user_id, cards_studied, correct_answers, session_duration) ==
    [user_id |-> user_id,
     cards_studied |-> cards_studied,
     correct_answers |-> correct_answers,
     accuracy_rate |-> IF cards_studied > 0 THEN FInt(correct_answers \div cards_studied)
                       ELSE FInt(0),
     session_duration |-> session_duration,
     xp_earned |-> correct_answers * 10,
     created_at |-> utcnow]

\* lines 316-329
session_data(user_id, cards_studied, correct_answers, session_duration) ==
    [user_id |-> user_id,
     cards_studied |-> cards_studied,
     correct_answers |-> correct_answers,
     accuracy_rate |-> IF cards_studied > 0 THEN FRat(correct_answers, cards_studied)
                       ELSE FInt(0),
     session_duration |-> session_duration,
     xp_earned |-> correct_answers * 10,
     created_at |-> utcnow]

\* the session's xp_earned credited to the user along with the insert
EssInsert_credits_xp(p, user_id, cards_studied, correct_answers, session_duration, cap) ==
    /\ pc[p] = "idle"
    /\ BagCardinality(study_sessions) < cap
    /\ LET row == session_data(user_id, cards_studied, correct_answers, session_duration)
       IN  /\ study_sessions' = study_sessions (+) SetToBag({row})
           /\ users' = [u \in DOMAIN users |->
                           IF u = user_id
                           THEN [users[u] EXCEPT !.xp_points = @ + row.xp_earned]
                           ELSE users[u]]
           /\ cbe' = [cbe EXCEPT ![p] =
                         [NoCbe EXCEPT !.caller = "end_study_session",
                                       !.user_id = user_id,
                                       !.before = achievements,
                                       !.session_data = <<row>>]]
    /\ pc' = [pc EXCEPT ![p] = "cbe_user"]
    /\ ret' = NoRet
    /\ quiet' = IF user_id = "u1" THEN FALSE ELSE quiet
    /\ UNCHANGED <<day, upp, dates, pureVars, achievements, tick, tz>>

\* lines 316-334: insert the session row, then go on to the badge check
EssInsert(p, user_id, cards_studied, correct_answers, session_duration, cap) ==
    /\ pc[p] = "idle"
    /\ BagCardinality(study_sessions) < cap
    /\ LET row == session_data(user_id, cards_studied, correct_answers, session_duration)
       IN  /\ study_sessions' = study_sessions (+) SetToBag({row})
           /\ cbe' = [cbe EXCEPT ![p] =
                         [NoCbe EXCEPT !.caller = "end_study_session",
                                       !.user_id = user_id,
                                       !.before = achievements,
                                       !.session_data = <<row>>,
                                       !.summary =
                                           <<[cards_studied |-> cards_studied,
                                              accuracy_rate |-> row.accuracy_rate,
                                              xp_earned |-> row.xp_earned,
                                              duration |-> session_duration,
                                              performance_message |->
                                                  performance_message(row.accuracy_rate,
                                                                      cards_studied)]>>]]
    /\ pc' = [pc EXCEPT ![p] = "cbe_user"]
    /\ ret' = NoRet
    /\ quiet' = IF user_id = "u1" THEN FALSE ELSE quiet
    /\ UNCHANGED <<progressVars, pureVars, achievements, tick, tz>>

end_study_session(p, cap) ==
    \E in \in SessionInputs : EssInsert(p, "u1", in[1], in[2], in[3], cap)

\* the wall clock reaches its next time
Tick ==
    /\ tick < MaxTicks
    /\ tick' = tick + 1
    /\ ret' = NoRet
    /\ UNCHANGED <<progressVars, pureVars, pc, study_sessions, achievements, tz, cbe, quiet>>

(***************************************************************************)
(* The flashcards table and submit_answer                                  *)
(***************************************************************************)
\* no flashcard has been created
NoCards == <<>>

\* line 187 without its cap
new_performance_uncapped(performance_score, is_correct) ==
    IF is_correct
    THEN FAdd(performance_score, FRat(1, 10))
    ELSE IF FLess(performance_score, FRat(1, 10)) THEN FZero
         ELSE FSub(performance_score, FRat(1, 10))

\* lines 183-189: min(p + 0.1, 1.0) after a correct answer, max(p - 0.1, 0.0)
\* after a wrong one (a difference below zero is less than 0.0)
new_performance_of(performance_score, is_correct) ==
    IF is_correct
    THEN FMin(FAdd(performance_score, FRat(1, 10)), FInt(1))
    ELSE IF FLess(performance_score, FRat(1, 10)) THEN FZero
         ELSE FSub(performance_score, FRat(1, 10))

\* Texts are sequences of characters over a small alphabet.
Chars == {"a", "b", "A", "B", " "}

\* str.lower()
lower(s) ==
    [i \in 1..Len(s) |->
        IF s[i] = "A" THEN "a" ELSE IF s[i] = "B" THEN "b" ELSE s[i]]

\* str.strip(): without the white space at both ends
RECURSIVE strip(_)
strip(s) ==
    IF s = <<>> THEN s
    ELSE IF Head(s) = " " THEN strip(Tail(s))
    ELSE IF s[Len(s)] = " " THEN strip(SubSeq(s, 1, Len(s) - 1))
    ELSE s

\* Python's `u in c` for strings
IsSubstring(u, c) ==
    \E i \in 0..(Len(c) - Len(u)) : SubSeq(c, i + 1, i + Len(u)) = u

\* the row create_flashcard inserts (lines 30-45); options is None or a list
new_flashcard(user_id, answer, question_type, options, difficulty_level) ==
    [user_id |-> user_id, answer |-> answer, question_type |-> question_type,
     options |-> options, difficulty_level |-> difficulty_level,
     performance_score |-> FZero, times_reviewed |-> 0,
     last_reviewed |-> None, next_review |-> None]

\* db.table("flashcards").select("*").eq("id", ...).eq("user_id", ...).execute().data
SelectCard(flashcard_id, user_id) ==
    IF flashcard_id \in DOMAIN flashcards /\ flashcards[flashcard_id].user_id = user_id
    THEN <<flashcards[flashcard_id]>>
    ELSE <<>>

\* line 167 accepting only the exact answer for every question type
is_correct_exact(card, user_answer) ==
    strip(lower(user_answer)) = strip(lower(card.answer))

\* lines 157-168
is_correct_of(card, user_answer) ==
    LET correct_answer == strip(lower(card.answer))
        answer == strip(lower(user_answer))
    IN  IF card.question_type = "multiple_choice"
        THEN IF card.options # None THEN answer = correct_answer ELSE FALSE
        ELSE answer = correct_answer \/ IsSubstring(answer, correct_answer)

NoUpdateCardData ==
    [performance_score |-> FZero, times_reviewed |-> 0,
     last_reviewed |-> None, next_review |-> None]

NoSub == [flashcard_id |-> "", user_id |-> "", user_answer |-> <<>>, time_taken |-> 0,
          card |-> new_flashcard("", <<>>, "", None, "easy"), is_correct |-> FALSE,
          current_streak |-> 0, total_xp |-> 0, update_card_data |-> NoUpdateCardData]

\* lines 147-168: read the card, or raise 404; judge the answer.  No more
\* than cap answers are followed per card.
SubReadCard(p, user_id, flashcard_id, user_answer, time_taken, cap) ==
    /\ pc[p] = "idle"
    /\ LET data == SelectCard(flashcard_id, user_id)
       IN  IF data = <<>>
           THEN /\ ret' = [kind |-> "raised", by |-> p, op |-> "submit_answer",
                            call |-> [NoSub EXCEPT !.flashcard_id = flashcard_id,
                                                   !.user_id = user_id,
                                                   !.user_answer = user_answer,
                                                   !.time_taken = time_taken],
                            error |-> "Flashcard not found"]
                /\ UNCHANGED <<pc, sub>>
           ELSE /\ data[1].times_reviewed < cap
                /\ sub' = [sub EXCEPT ![p] =
                              [NoSub EXCEPT !.flashcard_id = flashcard_id,
                                            !.user_id = user_id,
                                            !.user_answer = user_answer,
                                            !.time_taken = time_taken,
                                            !.card = data[1],
                                            !.is_correct =
                                                is_correct_of(data[1], user_answer)]]
                /\ pc' = [pc EXCEPT ![p] = "sub_user"]
                /\ ret' = NoRet
    /\ UNCHANGED <<progressVars, xpc, lvl, nrd, flashcards, badgeVars>>

\* lines 183-199: the fields of the card update; the clock is read as `now`
update_card_data_of(card, is_correct, now) ==
    LET new_performance == new_performance_of(card.performance_score, is_correct)
        times_reviewed == card.times_reviewed + 1
        next_review == calculate_next_review_date(new_performance, times_reviewed)
    IN  [performance_score |-> new_performance,
         times_reviewed |-> times_reviewed,
         last_reviewed |-> isoformat(now),
         next_review |-> <<now, next_review.delta>>]

\* lines 171-199: read the user's streak (0 for an unknown user), compute the
\* XP with the default accuracy_rate 1.0 and the card's new review state
SubReadUser(p) ==
    /\ pc[p] = "sub_user"
    /\ LET data == SelectUser(sub[p].user_id)
           current_streak == IF data # <<>> THEN data[1].current_streak ELSE 0
           xp_calc == calculate_xp(sub[p].is_correct, sub[p].card.difficulty_level,
                                   sub[p].time_taken, current_streak, FInt(1))
       IN  sub' = [sub EXCEPT ![p].current_streak = current_streak,
                              ![p].total_xp = xp_calc.total_xp,
                              ![p].update_card_data =
                                  update_card_data_of(sub[p].card, sub[p].is_correct, day)]
    /\ pc' = [pc EXCEPT ![p] = "sub_card"]
    /\ ret' = NoRet
    /\ UNCHANGED <<progressVars, xpc, lvl, nrd, flashcards, badgeVars>>

\* the row after update(update_card_data)
CardAfterUpdate(row, data) ==
    [row EXCEPT !.performance_score = data.performance_score,
                !.times_reviewed = data.times_reviewed,
                !.last_reviewed = data.last_reviewed,
                !.next_review = data.next_review]

\* line 202: the update request, filtered by the card's id alone
UpdateCard(p) ==
    flashcards' = [c \in DOMAIN flashcards |->
                      IF c = sub[p].flashcard_id
                      THEN CardAfterUpdate(flashcards[c], sub[p].update_card_data)
                      ELSE flashcards[c]]

\* line 202, when the response of the request can be awaited: the handler
\* goes on to the progress update
SubWriteCard(p) ==
    /\ pc[p] = "sub_card"
    /\ UpdateCard(p)
    /\ pc' = [pc EXCEPT ![p] = "sub_progress"]
    /\ ret' = NoRet
    /\ UNCHANGED <<progressVars, xpc, lvl, nrd, sub, badgeVars>>

\* line 202, when it cannot: get_database hands out the synchronous client
\* (core/database.py), whose execute() applies the request and returns a
\* plain response object; awaiting that raises TypeError, and the handler
\* ends there
SubWriteCardRaises(p) ==
    /\ pc[p] = "sub_card"
    /\ UpdateCard(p)
    /\ pc' = [pc EXCEPT ![p] = "idle"]
    /\ ret' = [kind |-> "raised", by |-> p, op |-> "submit_answer",
               call |-> sub[p], error |-> "TypeError"]
    /\ UNCHANGED <<progressVars, xpc, lvl, nrd, sub, badgeVars>>

\* the failure of the progress update undoing the card update of line 202
SubProgress_rolls_back(p) ==
    IF SelectUser(sub[p].user_id) = <<>>
    THEN /\ pc[p] = "sub_progress"
         /\ flashcards' = [c \in DOMAIN flashcards |->
                               IF c = sub[p].flashcard_id THEN sub[p].card
                               ELSE flashcards[c]]
         /\ ret' = [kind |-> "raised", by |-> p, op |-> "update_user_progress",
                    call |-> [NoCall EXCEPT !.user_id = sub[p].user_id,
                                            !.xp_earned = sub[p].total_xp,
                                            !.correct = sub[p].is_correct],
                    error |-> "User not found"]
         /\ pc' = [pc EXCEPT ![p] = "idle"]
         /\ UNCHANGED <<progressVars, xpc, lvl, nrd, sub, badgeVars>>
    ELSE UppReadAt(p, "sub_progress", sub[p].user_id, sub[p].total_xp,
                   sub[p].is_correct)

\* lines 205-209: update_user_progress is called with the XP and the verdict;
\* its steps are UppCompute and UppWrite, after which lines 211-215 build the
\* response from the handler's locals
SubProgress(p) ==
    UppReadAt(p, "sub_progress", sub[p].user_id, sub[p].total_xp, sub[p].is_correct)

NoXpc == [correct |-> FALSE, difficulty |-> "easy", time_taken |-> 0,
          current_streak |-> 0, accuracy |-> <<AccDen, AccDen>>, done |-> FALSE,
          result |-> calculate_xp(FALSE, "easy", 0, 0, FInt(1))]

NoLvl == [xp_points |-> 0, done |-> FALSE, result |-> 0]

NoNrd == [performance_score |-> <<0, AccDen>>, times_reviewed |-> 1, done |-> FALSE,
          result |-> calculate_next_review_date(FInt(0), 1)]

\* no handler is running, and the clock is at its start
InitHandlers ==
    /\ day = 1
    /\ pc = [p \in Procs |-> "idle"]
    /\ upp = [p \in Procs |-> NoCall]
    /\ ret = NoRet
    /\ cbe = [p \in Procs |-> NoCbe]
    /\ tick = 0
    /\ quiet = FALSE
    /\ sub = [p \in Procs |-> NoSub]
    /\ dates = {}

\* the same, with no flashcard created yet
InitIdle ==
    /\ InitHandlers
    /\ flashcards = NoCards

\* the tables after register_user has inserted "u1"
InitTables ==
    /\ users = [u \in {"u1"} |-> new_user]
    /\ study_sessions = EmptyBag
    /\ achievements = EmptyBag

Init ==
    /\ InitIdle
    /\ InitTables
    /\ tz = 0
    /\ xpc = NoXpc
    /\ nrd = NoNrd
    /\ lvl = NoLvl

Next ==
    \/ \E p \in Procs : update_user_progress(p)
    \/ AdvanceDay

Spec == Init /\ [][Next]_vars

\* one caller at a time: the calls of the handler run in sequence
NextSeq ==
    \/ update_user_progress("p1")
    \/ AdvanceDay

SpecSeq == Init /\ [][NextSeq]_vars

\* a user who studied on days -1 and 0 and has earned 90 XP since registering;
\* answers earn 0 or 15 XP
ResultXpChoices == {0, 15}

InitResult ==
    /\ InitIdle
    /\ users = [u \in {"u1"} |->
                   [xp_points |-> 90, level |-> _calculate_level(90),
                    current_streak |-> 2, last_study_date |-> isoformat(0)]]
    /\ study_sessions = EmptyBag
    /\ achievements = EmptyBag
    /\ tz = 0
    /\ xpc = NoXpc
    /\ nrd = NoNrd
    /\ lvl = NoLvl

NextResult ==
    \/ \E user_id \in UserIds, xp_earned \in ResultXpChoices, correct \in BOOLEAN :
           UppRead("p1", user_id, xp_earned, correct)
    \/ UppCompute("p1")
    \/ UppWrite("p1")
    \/ AdvanceDay

SpecResult == InitResult /\ [][NextResult]_vars

(***************************************************************************)
(* The session and badge handlers.  The user has a streak from earlier     *)
(* study days; the server's time zone is fixed for the run.                *)
(***************************************************************************)
\* the row of a user after n days in a row with one correct answer of 9 XP
StreakUser(n) ==
    [xp_points |-> 9 * n, level |-> _calculate_level(9 * n), current_streak |-> n,
     last_study_date |-> isoformat(n)]

TimeZones == {0, 0 - 5}

InitBadge ==
    /\ InitIdle
    /\ \E n \in {6, 7} : users = [u \in {"u1"} |-> StreakUser(n)]
    /\ study_sessions = EmptyBag
    /\ achievements = EmptyBag
    /\ tz \in TimeZones
    /\ xpc = NoXpc
    /\ nrd = NoNrd
    /\ lvl = NoLvl

\* one handler at a time
NextBadgeSeq ==
    \/ end_study_session("p1", MaxSessions)
    \/ \E user_id \in UserIds : check_ai_generation_achievements("p1", user_id)
    \/ check_badge_eligibility("p1")
    \/ Tick

SpecBadgeSeq == InitBadge /\ [][NextBadgeSeq]_vars

\* one handler at a time, every store request of the badge check may fail;
\* the client reports speed rounds of 10 cards
NextBadgeFail ==
    \/ EssInsert("p1", "u1", 10, 5, 60, MaxFailSessions)
    \/ \E user_id \in UserIds : check_ai_generation_achievements("p1", user_id)
    \/ check_badge_eligibility("p1")
    \/ CbeRaise("p1")
    \/ Tick

SpecBadgeFail == InitBadge /\ [][NextBadgeFail]_vars

\* every operation that touches the store, one handler at a time and all at
\* the same hour: sessions of no, some and ten cards, badge checks that may
\* fail, and progress updates
AnySessionInputs == {<<0, 0, 5>>, <<3, 2, 30>>, <<10, 5, 60>>}

NextSession ==
    \/ \E in \in AnySessionInputs :
           EssInsert("p1", "u1", in[1], in[2], in[3], MaxSessionRecords)
    \/ check_ai_generation_achievements("p1", "u1")
    \/ check_badge_eligibility("p1")
    \/ CbeRaise("p1")
    \/ \E correct \in BOOLEAN : UppRead("p1", "u1", 125, correct)
    \/ UppCompute("p1")
    \/ UppWrite("p1")

SpecSession == InitBadge /\ [][NextSession]_vars

\* a session-end request and a background task, each in its own process
NextBadge ==
    \/ end_study_session("p1", MaxConcurrentSessions)
    \/ check_ai_generation_achievements("p2", "u1")
    \/ \E p \in Procs : check_badge_eligibility(p)
    \/ \E p \in Procs : CbeConflict(p)
    \/ Tick

SpecBadge == InitBadge /\ [][NextBadge]_vars

(***************************************************************************)
(* The pure functions on their own: the arguments are drawn at the start   *)
(* and one step evaluates the function.                                    *)
(***************************************************************************)
InitXP ==
    /\ InitIdle
    /\ InitTables
    /\ tz = 0
    /\ lvl = NoLvl
    /\ nrd = NoNrd
    /\ \E correct \in BOOLEAN, difficulty \in Difficulties,
          time_taken \in 0..MaxTime, current_streak \in 0..MaxStreakIn,
          acc \in 0..MaxAcc :
          xpc = [NoXpc EXCEPT !.correct = correct, !.difficulty = difficulty,
                              !.time_taken = time_taken,
                              !.current_streak = current_streak,
                              !.accuracy = <<acc, AccDen>>]

EvalXP ==
    /\ ~xpc.done
    /\ xpc' = [xpc EXCEPT !.done = TRUE,
                          !.result = calculate_xp(xpc.correct, xpc.difficulty,
                                                  xpc.time_taken, xpc.current_streak,
                                                  FRat(xpc.accuracy[1], xpc.accuracy[2]))]
    /\ UNCHANGED <<progressVars, pc, ret, lvl, nrd, cardVars, badgeVars>>

SpecXP == InitXP /\ [][EvalXP]_vars

InitLevel ==
    /\ InitIdle
    /\ InitTables
    /\ tz = 0
    /\ xpc = NoXpc
    /\ nrd = NoNrd
    /\ \E xp_points \in 0..MaxLevelXP : lvl = [NoLvl EXCEPT !.xp_points = xp_points]

EvalLevel ==
    /\ ~lvl.done
    /\ lvl' = [lvl EXCEPT !.done = TRUE, !.result = _calculate_level(lvl.xp_points)]
    /\ UNCHANGED <<progressVars, pc, ret, xpc, nrd, cardVars, badgeVars>>

SpecLevel == InitLevel /\ [][EvalLevel]_vars

\* performance_score is n / AccDen, a score in [0, 1]; submit_answer passes
\* times_reviewed >= 1
InitReview ==
    /\ InitIdle
    /\ InitTables
    /\ tz = 0
    /\ xpc = NoXpc
    /\ lvl = NoLvl
    /\ \E n \in 0..AccDen, times_reviewed \in 1..MaxReviews :
          nrd = [NoNrd EXCEPT !.performance_score = <<n, AccDen>>,
                              !.times_reviewed = times_reviewed]

EvalReview ==
    /\ ~nrd.done
    /\ nrd' = [nrd EXCEPT !.done = TRUE,
                          !.result = calculate_next_review_date(
                                         FRat(nrd.performance_score[1], nrd.performance_score[2]),
                                         nrd.times_reviewed)]
    /\ UNCHANGED <<progressVars, pc, ret, xpc, lvl, cardVars, badgeVars>>

SpecReview == InitReview /\ [][EvalReview]_vars

(***************************************************************************)
(* Properties                                                              *)
(***************************************************************************)

\* C1: after every update_user_progress call, in any sequence of calls from a
\* newly registered user, the stored level is _calculate_level of the stored
\* xp_points.
C1_LevelMatchesXp ==
    \A u \in DOMAIN users : users[u].level = _calculate_level(users[u].xp_points)

\* an update has carried the user over two level thresholds
C1_Witness ==
    /\ ret.kind = "ok"
    /\ ret.op = "update_user_progress"
    /\ users["u1"].xp_points = 250
    /\ users["u1"].level = 3

\* C2: in every reachable state the achievements table holds at most one row
\* per (user, badge type), also when check_badge_eligibility runs interleave.
C2_OneRowPerUserBadge ==
    \A row \in BagToSet(achievements) : CopiesIn(row, achievements) <= 1

\* C3: a user's stored xp_points never decreases, whatever the interleaving of
\* the calls' read and write steps.
C3_XpNeverDecreases ==
    [][\A u \in DOMAIN users : users'[u].xp_points >= users[u].xp_points]_vars

\* C4: a check_badge_eligibility call that follows a finished call for the
\* same user, with no study session recorded in between, returns an empty list
\* and inserts no achievement.
C4_SecondCallAwardsNothing ==
    (/\ ret.kind = "ok"
     /\ ret.op = "check_ai_generation_achievements"
     /\ ret.call.user_id = "u1"
     /\ ret.call.quiet) =>
        /\ ret.value = <<>>
        /\ achievements = ret.call.before

\* such a second call has returned after the first one awarded two badges
C4_Witness ==
    /\ ret.kind = "ok"
    /\ ret.op = "check_ai_generation_achievements"
    /\ ret.call.user_id = "u1"
    /\ ret.call.quiet
    /\ BagCardinality(achievements) >= 2
    /\ ret.value = <<>>

\* C5: with correct = false calculate_xp returns total_xp = 0 and every other
\* field equal to 0, for every difficulty, time, streak and accuracy.
C5_WrongAnswerAllZero ==
    (xpc.done /\ ~xpc.correct) =>
        /\ xpc.result.total_xp = 0
        /\ xpc.result.base_xp = 0
        /\ xpc.result.difficulty_multiplier = FZero
        /\ xpc.result.accuracy_bonus = FZero
        /\ xpc.result.speed_bonus = FZero
        /\ xpc.result.streak_bonus = FZero

\* a wrong answer with every bonus at its best has been scored
C5_Witness ==
    /\ xpc.done
    /\ ~xpc.correct
    /\ xpc.difficulty = "hard"
    /\ xpc.time_taken = 3
    /\ xpc.current_streak = 10
    /\ xpc.accuracy = <<AccDen, AccDen>>

\* the claimed factors as exact rationals: tenths, and for the accuracy bonus
\* of the rate n / AccDen the unit 1 / (10 * AccDen)
C6_difficulty10(difficulty) ==
    IF difficulty = "easy" THEN 10 ELSE IF difficulty = "medium" THEN 15 ELSE 20

C6_speed10(time_taken) ==
    CASE time_taken < 5 -> 15
      [] time_taken >= 5 /\ time_taken < 10 -> 12
      [] time_taken >= 10 /\ time_taken < 20 -> 10
      [] time_taken >= 20 -> 8

C6_accuracy(n) == Min(12 * n, 15 * AccDen)

C6_streak10(current_streak) == IF current_streak >= 10 THEN 20 ELSE 10 + current_streak

C6_floor(difficulty, time_taken, current_streak, n) ==
    (10 * C6_difficulty10(difficulty) * C6_speed10(time_taken) * C6_accuracy(n)
        * C6_streak10(current_streak)) \div (10 * 10 * 10 * AccDen * 10)

\* C6: for a correct answer total_xp is the floor of the product
\* 10 x difficulty_multiplier x speed_bonus x accuracy_bonus x streak_bonus
\* of the tabulated factors; hard, 3 seconds, streak 10, accuracy 1.0 gives 72.
C6_TotalIsFloorOfProduct ==
    (xpc.done /\ xpc.correct) =>
        /\ xpc.result.total_xp =
               C6_floor(xpc.difficulty, xpc.time_taken, xpc.current_streak, xpc.accuracy[1])
        /\ (/\ xpc.difficulty = "hard"
            /\ xpc.time_taken = 3
            /\ xpc.current_streak = 10
            /\ xpc.accuracy = <<AccDen, AccDen>>) => xpc.result.total_xp = 72

\* the level the claim describes: max(1, i) for the smallest 0-based index i
\* with xp < thresholds[i], and 10 when there is none
C7_level(xp) ==
    LET below == {i \in 0..9 : xp < level_thresholds[i + 1]}
    IN  IF below = {} THEN 10
        ELSE Max(1, CHOOSE i \in below : \A j \in below : i <= j)

\* C7: _calculate_level(xp) is that level for every xp >= 0, lies in 1..10, is
\* non-decreasing in xp, and level(0) = 1, level(29999) = 9, level(30000) = 10.
C7_LevelTable ==
    lvl.done =>
        /\ lvl.result = C7_level(lvl.xp_points)
        /\ lvl.result \in 1..10
        /\ \A below \in {0, lvl.xp_points - 1, lvl.xp_points \div 2} :
               below >= 0 => _calculate_level(below) <= lvl.result
        /\ (lvl.xp_points = 0 => lvl.result = 1)
        /\ (lvl.xp_points = 29999 => lvl.result = 9)
        /\ (lvl.xp_points = 30000 => lvl.result = 10)

\* the level of the last threshold has been computed
C7_Witness ==
    /\ lvl.done
    /\ lvl.xp_points = 30000
    /\ lvl.result = 10

\* the row a finished update_user_progress call wrote is the stored row
Finished(r) == r.kind = "ok" /\ r.op = "update_user_progress"

\* C8: the streak written by update_user_progress follows the four-case rule
\* on the last-study date the call read and the date it sampled: none -> 1 if
\* correct else 0; today -> the streak read; yesterday -> streak read + 1 if
\* correct else 0; any other date -> 1 if correct else 0.
C8_FourCaseStreak ==
    Finished(ret) =>
        LET c == ret.call
            last == c.user.last_study_date
            stored == users[c.user_id].current_streak
            fresh == IF c.correct THEN 1 ELSE 0
        IN  /\ stored = ret.value.streak
            /\ last = None => stored = fresh
            /\ last = <<c.today>> => stored = c.user.current_streak
            /\ last = <<c.today - 1>> =>
                   stored = (IF c.correct THEN c.user.current_streak + 1 ELSE 0)
            /\ (last # None /\ last[1] \notin {c.today, c.today - 1}) => stored = fresh

\* a correct answer on the day after the last study day has extended a streak
C8_Witness ==
    /\ Finished(ret)
    /\ ret.call.correct
    /\ ret.call.user.last_study_date = <<ret.call.today - 1>>
    /\ ret.call.user.current_streak = 1
    /\ users["u1"].current_streak = 2

\* C9: once a call has been applied on date D (the stored last-study date is
\* D), a later sequential call on the same date leaves the stored streak as it
\* was, whatever the value of correct.
C9_SameDayKeepsStreak ==
    [][(Finished(ret') /\ users[ret'.call.user_id].last_study_date = <<ret'.call.today>>)
          => users'[ret'.call.user_id].current_streak
                 = users[ret'.call.user_id].current_streak]_vars

\* a second correct answer of the same day has been applied to a streak of 1
C9_Witness ==
    /\ Finished(ret)
    /\ ret.call.correct
    /\ ret.call.user.last_study_date = <<ret.call.today>>
    /\ ret.call.user.current_streak = 1
    /\ users["u1"].current_streak = 1

\* C10 as stated: after any call with correct = false the stored streak is 0,
\* also when the last-study date is already today.
C10_WrongAnswerResetsStreak ==
    (Finished(ret) /\ ~ret.call.correct) => users[ret.call.user_id].current_streak = 0

\* C10 as amended: after a call with correct = false the stored streak is 0
\* unless the last-study date the call read is already today; then the stored
\* streak is the streak the call read.
C10_WrongAnswerResetsUnlessSameDay ==
    (Finished(ret) /\ ~ret.call.correct) =>
        LET c == ret.call
        IN  users[c.user_id].current_streak =
                (IF c.user.last_study_date = <<c.today>> THEN c.user.current_streak ELSE 0)

\* a wrong answer later on a day that started a streak has left the streak at 1
C10_Witness ==
    /\ Finished(ret)
    /\ ~ret.call.correct
    /\ ret.call.user.last_study_date = <<ret.call.today>>
    /\ users["u1"].current_streak = 1


\* the exact interval min((1 + 2 * n / AccDen) * (1 + t / 2), 30) days, to the
\* microsecond (half to even), for performance_score = n / AccDen
C11_exact(n, t) ==
    LET num == (AccDen + 2 * n) * (2 + t)
        den == 2 * AccDen
    IN  IF num >= 30 * den
        THEN [days |-> 30, seconds |-> 0, microseconds |-> 0]
        ELSE LET us == BigMulSmall(us_per_day, num % den)
                 q == BigDivSmall(us, den, 0).q
                 r == BigModSmall(us, den, 0)
                 up == 2 * r > den \/ (2 * r = den /\ BigBit(q, 0) = 1)
             IN  SplitUs(num \div den, IF up THEN BigAdd(q, <<1>>) ELSE q)

\* timedelta a <= timedelta b
C11_leq(a, b) ==
    \/ a.days < b.days
    \/ a.days = b.days /\ a.seconds < b.seconds
    \/ a.days = b.days /\ a.seconds = b.seconds /\ a.microseconds <= b.microseconds

\* C11: calculate_next_review_date returns now + min((1 + 2 * performance_score)
\* * (1 + 0.5 * times_reviewed), 30) days; for performance_score in [0, 1] and
\* times_reviewed >= 1 the interval never exceeds 30 days and does not shrink
\* when performance_score or times_reviewed grows.
C11_IntervalCappedAndMonotone ==
    nrd.done =>
        LET n == nrd.performance_score[1]
            t == nrd.times_reviewed
            r == nrd.result
        IN  /\ r.delta = C11_exact(n, t)
            /\ ~FLess(FInt(30), r.interval_days)
            /\ C11_leq(r.delta, [days |-> 30, seconds |-> 0, microseconds |-> 0])
            /\ n < AccDen =>
                   LET up == calculate_next_review_date(FRat(n + 1, AccDen), t)
                   IN  /\ C11_leq(r.delta, up.delta)
                       /\ ~FLess(up.interval_days, r.interval_days)
            /\ LET up == calculate_next_review_date(FRat(n, AccDen), t + 1)
               IN  /\ C11_leq(r.delta, up.delta)
                   /\ ~FLess(up.interval_days, r.interval_days)

\* a mastered card reviewed 20 times: 3 * 11 = 33 days, cut to 30
C11_Witness ==
    /\ nrd.done
    /\ nrd.performance_score = <<AccDen, AccDen>>
    /\ nrd.times_reviewed = 20
    /\ nrd.result.delta = [days |-> 30, seconds |-> 0, microseconds |-> 0]

\* C12: when no user record exists for user_id, update_user_progress fails
\* with "User not found" and writes nothing: the call never gets to compute or
\* write a row, and the step that raises leaves every table as it was.
C12_AbsentUserRaisesNoWrite ==
    /\ [](\A p \in Procs :
             pc[p] \in {"upp_compute", "upp_write"} => upp[p].user_id \in DOMAIN users)
    /\ [][\A p \in Procs, user_id \in UserIds, xp_earned \in XpEarnedChoices,
              correct \in BOOLEAN :
              (UppRead(p, user_id, xp_earned, correct) /\ user_id \notin DOMAIN users) =>
                  /\ ret'.kind = "raised"
                  /\ ret'.error = "User not found"
                  /\ ret'.call.user_id = user_id
                  /\ pc'[p] = "idle"
                  /\ users' = users
                  /\ study_sessions' = study_sessions
                  /\ achievements' = achievements]_vars

\* a call for the unknown "u2" has failed after "u1" had earned XP
C12_Witness ==
    /\ ret.kind = "raised"
    /\ ret.op = "update_user_progress"
    /\ ret.call.user_id = "u2"
    /\ "u2" \notin DOMAIN users
    /\ users["u1"].xp_points = 125

\* C13: the result of update_user_progress reports total_xp = the stored xp
\* before the call + xp_earned, level = the level of the new total, level_up =
\* (new level > previously stored level) and streak_broken = (new streak <
\* previously stored streak); the reported total, level and streak are the
\* ones the call stored.
C13_ResultReportsDelta ==
    [][\A p \in Procs :
          UppWrite(p) =>
              LET old == users[upp[p].user_id]
                  new == users'[upp[p].user_id]
                  v == ret'.value
              IN  /\ ret'.kind = "ok"
                  /\ v.xp_earned = upp[p].xp_earned
                  /\ v.total_xp = old.xp_points + upp[p].xp_earned
                  /\ v.total_xp = new.xp_points
                  /\ v.level = C7_level(v.total_xp)
                  /\ v.level = new.level
                  /\ v.level_up = (v.level > old.level)
                  /\ v.streak = new.current_streak
                  /\ v.streak_broken = (v.streak < old.current_streak)]_vars

\* the user at xp = 90, level 1 has earned 15 XP: total 105, level 2
C13_Witness ==
    /\ ret.kind = "ok"
    /\ ret.op = "update_user_progress"
    /\ ret.call.user.xp_points = 90
    /\ ret.call.user.level = 1
    /\ ret.call.xp_earned = 15
    /\ ret.value.total_xp = 105
    /\ ret.value.level = 2
    /\ ret.value.level_up
    /\ users["u1"].xp_points = 105

\* a finished check_badge_eligibility run for a known user, by either caller
BadgeRunDone ==
    /\ ret.kind = "ok"
    /\ ret.op \in {"end_study_session", "check_ai_generation_achievements"}
    /\ ret.call.user_id \in DOMAIN users

\* the badges the user held when the run started
HeldBefore ==
    {a.badge_type : a \in {r \in BagToSet(ret.call.before) : r.user_id = ret.call.user_id}}

\* the badges the run reports as newly awarded
Reported == {ret.value[i] : i \in 1..Len(ret.value)}

\* the run holds a row of badge b for the user that was not there before
Inserted(b) ==
    LET row == [user_id |-> ret.call.user_id, badge_type |-> b]
    IN  CopiesIn(row, achievements) = CopiesIn(row, ret.call.before) + 1

\* the user's session rows whose creation hour is in H, with their multiplicity
C14_sessions(user_id, H) ==
    LET rows == {r \in BagToSet(study_sessions) :
                    r.user_id = user_id /\ (r.created_at % 24) \in H}
    IN  [r \in rows |-> CopiesIn(r, study_sessions)]

\* one copy per correct answer of the user's sessions
C14_correct(user_id) ==
    LET rows == {r \in BagToSet(study_sessions) :
                    r.user_id = user_id /\ r.correct_answers > 0}
    IN  [r \in rows |-> CopiesIn(r, study_sessions) * r.correct_answers]

C14_rule(b, user_id) ==
    CASE b = "first_steps" -> BagCardinality(C14_sessions(user_id, 0..23)) >= 1
      [] b = "fire_scholar" -> users[user_id].current_streak >= 7
      [] b = "knowledge_wizard" -> BagCardinality(C14_correct(user_id)) >= 100
      [] b = "early_bird" -> BagCardinality(C14_sessions(user_id, 0..7)) >= 5
      [] b = "night_owl" -> BagCardinality(C14_sessions(user_id, 22..23)) >= 5

\* C14: for a badge the user does not yet hold, check_badge_eligibility awards
\* it (inserts its row and reports it) exactly when its rule holds: first_steps
\* iff >= 1 session, fire_scholar iff current_streak >= 7, knowledge_wizard iff
\* the correct answers of all sessions sum to >= 100, early_bird iff >= 5
\* sessions were created before 08:00, night_owl iff >= 5 at or after 22:00.
C14_AggregateBadges ==
    BadgeRunDone =>
        \A b \in {"first_steps", "fire_scholar", "knowledge_wizard", "early_bird",
                  "night_owl"} :
            /\ (b \in Reported) = (b \notin HeldBefore /\ C14_rule(b, ret.call.user_id))
            /\ (b \in Reported) = Inserted(b)

\* the fifth 07:00 session brings the correct answers to 100: knowledge_wizard
\* and early_bird are awarded, night_owl is not
C14_Witness ==
    /\ BadgeRunDone
    /\ "knowledge_wizard" \in Reported
    /\ "early_bird" \in Reported
    /\ "first_steps" \in HeldBefore
    /\ "night_owl" \notin Reported
    /\ Inserted("early_bird")

\* some session of the user created within the trailing 7 days is a speed round
C15_speed_rule(user_id) ==
    \E r \in BagToSet(study_sessions) :
        /\ r.user_id = user_id
        /\ r.created_at >= utcnow - 7 * 24
        /\ r.cards_studied >= 10
        /\ r.session_duration <= 60

\* some session of the user, of any age, is a perfect round of 20 or more cards
C15_perfect_rule(user_id) ==
    \E r \in BagToSet(study_sessions) :
        /\ r.user_id = user_id
        /\ r.cards_studied >= 20
        /\ r.correct_answers = r.cards_studied

\* C15: for a badge the user does not yet hold, the evaluation step of
\* check_badge_eligibility goes on to award speed_demon exactly when some
\* session created within the trailing 7 days has cards_studied >= 10 and
\* session_duration <= 60, and perfectionist exactly when some session of any
\* age has cards_studied >= 20 and accuracy_rate = 1.0.
C15_SpeedAndPerfectBadges ==
    [][\A p \in Procs :
          (/\ CbeEvaluate(p)
           /\ BadgeOrder[cbe[p].idx] \in {"speed_demon", "perfectionist"}
           /\ BadgeOrder[cbe[p].idx] \notin cbe[p].existing_badges) =>
              (pc'[p] = "cbe_award") =
                  IF BadgeOrder[cbe[p].idx] = "speed_demon"
                  THEN C15_speed_rule(cbe[p].user_id)
                  ELSE C15_perfect_rule(cbe[p].user_id)]_vars

\* the user's session rows created after time t, with their multiplicity
C16_after(user_id, t) ==
    LET rows == {r \in BagToSet(study_sessions) : r.user_id = user_id /\ r.created_at > t}
    IN  [r \in rows |-> CopiesIn(r, study_sessions)]

\* at least two sessions, and the most recent one is the only one of the 7
\* days (168 hours) that end with it
C16_rule(user_id) ==
    /\ BagCardinality(C16_after(user_id, 0 - 1)) >= 2
    /\ \E r \in BagToSet(study_sessions) :
           /\ r.user_id = user_id
           /\ BagCardinality(C16_after(user_id, r.created_at)) = 0
           /\ BagCardinality(C16_after(user_id, r.created_at - 7 * 24)) = 1

\* C16: for a user who does not yet hold comeback_kid, the evaluation step of
\* check_badge_eligibility goes on to award it exactly when the user has at
\* least two sessions and the most recent one was created >= 7 whole days
\* after the second most recent; with fewer than two sessions, or when a later
\* session has followed the returning one, it is not awarded.
C16_ComebackKid ==
    [][\A p \in Procs :
          (/\ CbeEvaluate(p)
           /\ BadgeOrder[cbe[p].idx] = "comeback_kid"
           /\ "comeback_kid" \notin cbe[p].existing_badges) =>
              (pc'[p] = "cbe_award") = C16_rule(cbe[p].user_id)]_vars

\* the session that ended a break of 169 hours has earned the badge
C16_Witness ==
    /\ BadgeRunDone
    /\ ret.op = "end_study_session"
    /\ "comeback_kid" \in Reported
    /\ Inserted("comeback_kid")
    /\ BagCardinality(C16_after(ret.call.user_id, 0 - 1)) = 2

\* C17: when a store request fails while one badge rule is evaluated or
\* awarded, the rules after it are still evaluated and their earned badges
\* awarded: every later badge the user does not hold and whose rule holds has
\* its row in the store when the run ends.
C17_FailureIsolatedPerBadge ==
    (/\ ret.kind = "raised"
     /\ ret.op \in {"end_study_session", "check_ai_generation_achievements"}
     /\ ret.call.idx >= 1) =>
        \A j \in (ret.call.idx + 1)..Len(BadgeOrder) :
            (/\ BadgeOrder[j] \notin ret.call.existing_badges
             /\ Earned(BadgeOrder[j], ret.call.user, ret.call.user_id)) =>
                BagIn(achievement_data(ret.call.user_id, BadgeOrder[j]), achievements)

\* C18: when the store rejects an achievement insert with a conflict because
\* the (user, badge) row already exists, the call does not fail.
C18_ConflictIsAlreadyAwarded ==
    ~(/\ ret.kind = "raised"
      /\ ret.op \in {"end_study_session", "check_ai_generation_achievements"}
      /\ ret.error = "conflict")

\* the positions of a running check_badge_eligibility
CbePositions == {"cbe_user", "cbe_existing", "cbe_eval", "cbe_award"}

\* C19: in end_study_session the session row is in the store before badge
\* evaluation starts and all through it, and when badge evaluation fails the
\* row is still there: the failing step changes no session row.
C19_SessionSurvivesFailedCheck ==
    /\ [](\A p \in Procs :
             (pc[p] \in CbePositions /\ cbe[p].caller = "end_study_session") =>
                 BagIn(cbe[p].session_data[1], study_sessions))
    /\ []((ret.kind = "raised" /\ ret.op = "end_study_session") =>
              BagIn(ret.call.session_data[1], study_sessions))
    /\ [][\A p \in Procs : CbeRaise(p) => study_sessions' = study_sessions]_vars

\* the check has failed at first_steps; the session row is in the store
C19_Witness ==
    /\ ret.kind = "raised"
    /\ ret.op = "end_study_session"
    /\ ret.call.idx = 1
    /\ ret.call.existing_badges = {}
    /\ BagIn(ret.call.session_data[1], study_sessions)
    /\ BagCardinality(study_sessions) = 1
    /\ achievements = EmptyBag

\* the float correct_answers / cards_studied, 0 when no card was studied
C20_accuracy(cards_studied, correct_answers) ==
    IF cards_studied = 0 THEN FZero
    ELSE IF correct_answers = cards_studied THEN FInt(1)
    ELSE FRat(correct_answers, cards_studied)

\* C20: end_study_session appends exactly one study-session row, whose
\* accuracy_rate is correct_answers / cards_studied (0 when cards_studied = 0);
\* no step of any operation changes or removes a stored session row, and only
\* end_study_session adds one.
C20_SessionsAppendOnly ==
    [][/\ \A r \in BagToSet(study_sessions) :
              CopiesIn(r, study_sessions') >= CopiesIn(r, study_sessions)
       /\ \A p \in Procs, in \in AnySessionInputs :
              EssInsert(p, "u1", in[1], in[2], in[3], MaxSessionRecords) =>
                  \E r \in BagToSet(study_sessions') :
                      /\ study_sessions' = study_sessions (+) SetToBag({r})
                      /\ BagCardinality(study_sessions') = BagCardinality(study_sessions) + 1
                      /\ r.user_id = "u1"
                      /\ r.cards_studied = in[1]
                      /\ r.correct_answers = in[2]
                      /\ r.session_duration = in[3]
                      /\ r.accuracy_rate = C20_accuracy(in[1], in[2])
       /\ study_sessions' # study_sessions =>
              \E p \in Procs :
                  /\ pc[p] = "idle"
                  /\ pc'[p] = "cbe_user"
                  /\ cbe'[p].caller = "end_study_session"
                  /\ study_sessions' = study_sessions (+) SetToBag({cbe'[p].session_data[1]})]_vars

\* a session without cards and one of 2 correct answers out of 3 are stored,
\* and a progress update has run since
C20_Witness ==
    /\ BagCardinality(study_sessions) = 2
    /\ \E r \in BagToSet(study_sessions) :
           r.cards_studied = 0 /\ r.accuracy_rate = FZero
    /\ \E r \in BagToSet(study_sessions) :
           r.cards_studied = 3 /\ r.accuracy_rate = FRat(2, 3)
    /\ ret.kind = "ok"
    /\ ret.op = "update_user_progress"

(***************************************************************************)
(* get_leaderboard.  Three users are registered and have earned XP; the    *)
(* board is read between progress updates.                                 *)
(***************************************************************************)
MaxLimit == 3

BoardIds == {"u1", "u2", "u3"}
BoardXp == {0, 40, 120}

\* the row of a registered user who has earned xp so far, last on day 0
BoardUser(xp) ==
    [xp_points |-> xp, level |-> _calculate_level(xp),
     current_streak |-> IF xp = 0 THEN 0 ELSE 1,
     last_study_date |-> IF xp = 0 THEN None ELSE isoformat(0)]

\* the selected columns of a stored row
BoardRow(id) ==
    [id |-> id, xp_points |-> users[id].xp_points, level |-> users[id].level]

\* .order("xp_points", desc=True): the store leaves the order of ties open
OrderedBy(data) ==
    \A i \in 1..Len(data) - 1 : data[i].xp_points >= data[i + 1].xp_points

\* the answers the store can give to
\* select(...).order("xp_points", desc=True).limit(limit).execute()
SelectBoard(limit) ==
    LET n == Min(limit, Cardinality(DOMAIN users))
        rows == {BoardRow(id) : id \in DOMAIN users}
    IN  {data \in [1..n -> rows] :
            /\ \A i, j \in 1..n : i # j => data[i].id # data[j].id
            /\ OrderedBy(data)
            /\ \A r \in rows :
                   (\A i \in 1..n : data[i].id # r.id) =>
                       \A i \in 1..n : data[i].xp_points >= r.xp_points}

\* enumerate(result.data) counting from 0
leaderboard_from_zero(data) ==
    [i \in 1..Len(data) |->
        [rank |-> i - 1, user_id |-> data[i].id,
         xp_points |-> data[i].xp_points, level |-> data[i].level]]

\* lines 275-284: one entry per row, ranked by enumerate(result.data, 1)
leaderboard_of(data) ==
    [i \in 1..Len(data) |->
        [rank |-> i, user_id |-> data[i].id,
         xp_points |-> data[i].xp_points, level |-> data[i].level]]

\* lines 267-286
get_leaderboard(p, limit) ==
    /\ pc[p] = "idle"
    /\ \E data \in SelectBoard(limit) :
           ret' = [kind |-> "ok", by |-> p, op |-> "get_leaderboard",
                   call |-> [limit |-> limit], value |-> leaderboard_of(data)]
    /\ UNCHANGED <<progressVars, pc, pureVars, badgeVars>>

InitBoard ==
    /\ InitIdle
    /\ users \in [BoardIds -> {BoardUser(xp) : xp \in BoardXp}]
    /\ study_sessions = EmptyBag
    /\ achievements = EmptyBag
    /\ tz = 0
    /\ xpc = NoXpc
    /\ nrd = NoNrd
    /\ lvl = NoLvl

NextBoard ==
    \/ \E limit \in 0..MaxLimit : get_leaderboard("p2", limit)
    \/ \E correct \in BOOLEAN : UppRead("p1", "u1", 125, correct)
    \/ UppCompute("p1")
    \/ UppWrite("p1")

SpecBoard == InitBoard /\ [][NextBoard]_vars

\* C21: get_leaderboard(limit) changes no table, and returns at most limit
\* entries, each a stored user with its stored xp_points and level, in
\* non-increasing order of xp_points, the i-th entry carrying rank i.
C21_LeaderboardReadOnlyRanked ==
    [][(ret'.kind = "ok" /\ ret'.op = "get_leaderboard") =>
          LET board == ret'.value
          IN  /\ UNCHANGED <<users, study_sessions, achievements>>
              /\ Len(board) <= ret'.call.limit
              /\ \A i \in 1..Len(board) :
                     /\ board[i].rank = i
                     /\ board[i].user_id \in DOMAIN users
                     /\ board[i].xp_points = users[board[i].user_id].xp_points
                     /\ board[i].level = users[board[i].user_id].level
              /\ \A i \in 1..Len(board) - 1 :
                     board[i].xp_points >= board[i + 1].xp_points]_vars

\* a board of two entries cut off by the limit from three users with
\* different XP, read while a progress update of the leader is under way
C21_Witness ==
    /\ ret.kind = "ok"
    /\ ret.op = "get_leaderboard"
    /\ ret.call.limit = 2
    /\ Len(ret.value) = 2
    /\ ret.value[1].xp_points > ret.value[2].xp_points
    /\ \E u \in DOMAIN users : users[u].xp_points < ret.value[2].xp_points
    /\ pc["p1"] = "upp_write"

(***************************************************************************)
(* Two callers answering for the same user at the same time                *)
(***************************************************************************)
NextRace ==
    \/ \E p \in Procs, xp_earned \in XpEarnedChoices, correct \in BOOLEAN :
           UppRead(p, "u1", xp_earned, correct)
    \/ \E p \in Procs : UppCompute(p)
    \/ \E p \in Procs : UppWrite(p)

SpecRace == Init /\ [][NextRace]_vars

\* C22: the write of update_user_progress stores the xp_points the call read
\* plus its own xp_earned, whatever has been stored since the read; when
\* another call's award was stored in between, the stored total after the
\* write is less than the stored total before it plus xp_earned, so the
\* other award is lost.
C22_LostUpdate ==
    [][\A p \in Procs :
          (pc[p] = "upp_write" /\ pc'[p] = "idle") =>
              LET u == upp[p].user_id
              IN  /\ users'[u].xp_points = upp[p].user.xp_points + upp[p].xp_earned
                  /\ users[u].xp_points > upp[p].user.xp_points =>
                         users'[u].xp_points < users[u].xp_points + upp[p].xp_earned]_vars

\* p2 has just written 125 XP for a call that read 0 XP and earned 125, after
\* p1, whose own award of 125 XP had been stored in between, read the row
\* again: two awards of 125 on top of 0 leave 125 stored
C22_Witness ==
    /\ ret.kind = "ok"
    /\ ret.by = "p2"
    /\ ret.call.user.xp_points = 0
    /\ ret.call.xp_earned = 125
    /\ users["u1"].xp_points = 125
    /\ pc["p1"] = "upp_compute"
    /\ upp["p1"].user.xp_points = 125

\* C23: a call of update_user_progress changes the users table in one step
\* only, the one that finishes it successfully; that step replaces
\* xp_points, level, current_streak and last_study_date of the user's row
\* together, last_study_date being the day the call sampled as today, and
\* leaves every other row alone.  A call that raises changes nothing.
C23_OneWriteOfFourFields ==
    [][/\ users' # users =>
              /\ pc["p1"] = "upp_write"
              /\ ret'.kind = "ok"
              /\ ret'.op = "update_user_progress"
       /\ (pc["p1"] = "upp_compute" /\ pc'["p1"] = "upp_write") =>
              /\ upp'["p1"].today = day
              /\ users' = users
       /\ (pc["p1"] = "upp_write" /\ pc'["p1"] = "idle") =>
              LET c == upp["p1"]
                  new_xp == c.user.xp_points + c.xp_earned
              IN  /\ ret'.kind = "ok"
                  /\ DOMAIN users' = DOMAIN users
                  /\ \A u \in DOMAIN users : u # c.user_id => users'[u] = users[u]
                  /\ users'[c.user_id] =
                         [xp_points |-> new_xp,
                          level |-> _calculate_level(new_xp),
                          current_streak |->
                              new_streak_of(c.user.last_study_date,
                                            c.user.current_streak, c.today, c.correct),
                          last_study_date |-> isoformat(c.today)]]_vars

\* a finished call whose write changed all four fields at once: 90 XP, level
\* 1, streak 2 and day 0 became 105 XP, level 2, streak 3 and day 1
C23_Witness ==
    /\ ret.kind = "ok"
    /\ ret.op = "update_user_progress"
    /\ ret.call.user = [xp_points |-> 90, level |-> 1, current_streak |-> 2,
                        last_study_date |-> isoformat(0)]
    /\ users["u1"] = [xp_points |-> 105, level |-> 2, current_streak |-> 3,
                      last_study_date |-> isoformat(1)]

(***************************************************************************)
(* A user without study sessions next to one who studies: "u2" ends        *)
(* sessions while the background check runs for "u1".                      *)
(***************************************************************************)
InitEmpty ==
    /\ InitIdle
    /\ \E n \in {6, 7} : users = [u \in UserIds |->
                                     IF u = "u1" THEN StreakUser(n) ELSE StreakUser(3)]
    /\ study_sessions = EmptyBag
    /\ achievements = EmptyBag
    /\ tz \in TimeZones
    /\ xpc = NoXpc
    /\ nrd = NoNrd
    /\ lvl = NoLvl

NextEmpty ==
    \/ \E in \in SessionInputs :
           EssInsert("p1", "u2", in[1], in[2], in[3], MaxSessionRecords)
    \/ check_ai_generation_achievements("p1", "u1")
    \/ check_badge_eligibility("p1")
    \/ Tick

SpecEmpty == InitEmpty /\ [][NextEmpty]_vars

\* the badges whose rule reads the study_sessions table
SessionBadges ==
    {b \in {BadgeOrder[i] : i \in 1..Len(BadgeOrder)} :
        badge_requirements(b).type # "streak"}

\* C25: while an existing user has no study session, a check_badge_eligibility
\* run for that user never gets to award a session-based badge, ends without
\* an error, reports no session-based badge and leaves the user without one.
C25_NoSessionsNoSessionBadge ==
    \A u \in DOMAIN users :
        (\A r \in BagToSet(study_sessions) : r.user_id # u) =>
            /\ \A p \in Procs :
                   (pc[p] = "cbe_award" /\ cbe[p].user_id = u) =>
                       BadgeOrder[cbe[p].idx] \notin SessionBadges
            /\ \A b \in SessionBadges :
                   ~BagIn([user_id |-> u, badge_type |-> b], achievements)
            /\ (ret.kind # "none" /\ ret.op = "check_ai_generation_achievements"
                   /\ ret.call.user_id = u) =>
                   /\ ret.kind = "ok"
                   /\ Reported \cap SessionBadges = {}

\* the check has finished for "u1", who has a streak of 7 and no session,
\* while "u2" has sessions and session badges: "u1" got fire_scholar only
C25_Witness ==
    /\ BadgeRunDone
    /\ ret.call.user_id = "u1"
    /\ \A r \in BagToSet(study_sessions) : r.user_id = "u2"
    /\ BagCardinality(study_sessions) = 2
    /\ BagIn([user_id |-> "u2", badge_type |-> "first_steps"], achievements)
    /\ Reported = {"fire_scholar"}

(***************************************************************************)
(* A newly registered user answering over the days, one call at a time;    *)
(* the dates of the calls are kept as history.                             *)
(***************************************************************************)
NextStreak ==
    \/ \E xp_earned \in XpEarnedChoices, correct \in BOOLEAN :
           UppRead("p1", "u1", xp_earned, correct)
    \/ UppComputeDated("p1")
    \/ UppWrite("p1")
    \/ AdvanceDay

SpecStreak == Init /\ [][NextStreak]_vars

\* C27: from a newly registered user, with the date never going back and one
\* update_user_progress call at a time, the stored streak is never negative
\* and never more than the number of distinct dates on which a call was made.
C27_StreakBoundedByDates ==
    /\ users["u1"].current_streak >= 0
    /\ users["u1"].current_streak <= Cardinality(dates)

\* correct answers on each date of the run, one date after the other, have
\* brought the streak to the number of dates
C27_Witness ==
    /\ Cardinality(dates) = MaxDay
    /\ users["u1"].current_streak = MaxDay
    /\ ret.kind = "ok"
    /\ ret.op = "update_user_progress"

\* C28: no step of end_study_session, from the insert of the session row to
\* the end of its badge check, changes the users table, so the xp_earned of
\* the stored session row (correct_answers * 10) is not added to the user's
\* xp_points; the users table changes only by update_user_progress.
C28_SessionLeavesProgress ==
    [][/\ (\/ pc'["p1"] = "cbe_user"
           \/ cbe["p1"].caller = "end_study_session") => users' = users
       /\ (pc'["p1"] = "cbe_user" /\ cbe'["p1"].caller = "end_study_session") =>
              LET row == cbe'["p1"].session_data[1]
              IN  /\ row.xp_earned = row.correct_answers * 10
                  /\ BagIn(row, study_sessions')
       /\ users' # users => pc["p1"] = "upp_write"]_vars

\* end_study_session has returned for a session of 5 correct answers, which
\* is stored with xp_earned 50, and the user still has the 54 XP and the
\* level, streak and date they had before
C28_Witness ==
    /\ ret.kind = "ok"
    /\ ret.op = "end_study_session"
    /\ ret.call.session_data[1].xp_earned = 50
    /\ BagIn(ret.call.session_data[1], study_sessions)
    /\ users["u1"] = StreakUser(6)

(***************************************************************************)
(* submit_answer, one request at a time, on one short-answer card of "u1"  *)
(* whose stored answer is "Ab ": right and wrong answers, and answers to a *)
(* card that does not exist.                                               *)
(***************************************************************************)
MaxAnswers == 12

CardIds == {"c1", "c2"}

InitCard ==
    /\ InitHandlers
    /\ InitTables
    /\ flashcards = [c \in {"c1"} |->
                        new_flashcard("u1", <<"A", "b", " ">>, "short_answer",
                                      None, "hard")]
    /\ tz = 0
    /\ xpc = NoXpc
    /\ nrd = NoNrd
    /\ lvl = NoLvl

NextCard ==
    \/ \E flashcard_id \in CardIds, user_answer \in {<<"a", "b">>, <<"b", "a">>} :
           SubReadCard("p1", "u1", flashcard_id, user_answer, 3, MaxAnswers)
    \/ SubReadUser("p1")
    \/ SubWriteCard("p1")
    \/ SubWriteCardRaises("p1")
    \/ SubProgress("p1")
    \/ UppCompute("p1")
    \/ UppWrite("p1")

SpecCard == InitCard /\ [][NextCard]_vars

\* x <= y for floats
C24_leq(x, y) == ~FLess(y, x)

\* the score after an answer: 0.1 more but no more than 1.0, or 0.1 less but
\* no less than 0.0
C24_score(old, is_correct) ==
    IF is_correct
    THEN IF C24_leq(FInt(1), FAdd(old, FRat(1, 10))) THEN FInt(1)
         ELSE FAdd(old, FRat(1, 10))
    ELSE IF C24_leq(old, FRat(1, 10)) THEN FZero
         ELSE FSub(old, FRat(1, 10))

\* C24: a card starts with performance score 0.0 and no review; the score is
\* always within [0.0, 1.0]; the card changes only by the update of a
\* submitted answer, which adds 0.1 to the score (at most 1.0) when the answer
\* is correct, subtracts 0.1 (at least 0.0) when it is not, and adds exactly 1
\* to times_reviewed.
C24_ScoreAndReviews ==
    [][/\ \A c \in DOMAIN flashcards' :
              /\ C24_leq(FZero, flashcards'[c].performance_score)
              /\ C24_leq(flashcards'[c].performance_score, FInt(1))
              /\ flashcards'[c].times_reviewed = 0 =>
                     flashcards'[c].performance_score = FZero
       /\ flashcards' # flashcards => pc["p1"] = "sub_card"
       /\ (pc["p1"] = "sub_card" /\ pc'["p1"] # "sub_card") =>
              LET c == sub["p1"].flashcard_id
              IN  /\ flashcards'[c].times_reviewed = flashcards[c].times_reviewed + 1
                  /\ flashcards'[c].performance_score =
                         C24_score(flashcards[c].performance_score,
                                   sub["p1"].is_correct)]_vars

\* the twelfth answer in a row was correct: the score, at 1.0 since the
\* eleventh, stayed there
C24_Witness ==
    /\ flashcards["c1"].times_reviewed = 12
    /\ flashcards["c1"].performance_score = FInt(1)
    /\ sub["p1"].card.performance_score = FInt(1)
    /\ sub["p1"].is_correct
    /\ pc["p1"] # "sub_card"

(***************************************************************************)
(* submit_answer for two cards: "c1" of the registered user "u1", and "c2" *)
(* of "u2", whose token is valid but who has no row in the users table.    *)
(***************************************************************************)
MaxOwnerAnswers == 2

InitOwners ==
    /\ InitHandlers
    /\ InitTables
    /\ flashcards = [c \in CardIds |->
                        new_flashcard(IF c = "c1" THEN "u1" ELSE "u2",
                                      <<"A", "b", " ">>, "short_answer", None, "hard")]
    /\ tz = 0
    /\ xpc = NoXpc
    /\ nrd = NoNrd
    /\ lvl = NoLvl

NextOwners ==
    \/ \E user_id \in UserIds, flashcard_id \in CardIds,
          user_answer \in {<<"a", "b">>, <<"b", "a">>} :
           SubReadCard("p1", user_id, flashcard_id, user_answer, 3, MaxOwnerAnswers)
    \/ SubReadUser("p1")
    \/ SubWriteCard("p1")
    \/ SubWriteCardRaises("p1")
    \/ SubProgress("p1")
    \/ UppCompute("p1")
    \/ UppWrite("p1")

SpecOwners == InitOwners /\ [][NextOwners]_vars

\* the card holds the review state the handler computed
C26_stored(row, data) ==
    /\ row.performance_score = data.performance_score
    /\ row.times_reviewed = data.times_reviewed
    /\ row.last_reviewed = data.last_reviewed
    /\ row.next_review = data.next_review

\* C26: submit_answer writes the card's new review state in a step of its
\* own, before update_user_progress has read anything, and that step leaves
\* the users table alone; the users table is written only later, by the write
\* of update_user_progress.  When the handler fails after the card write
\* (update_user_progress raises "User not found", or the await of the card
\* update raises), the card's new performance_score, times_reviewed and
\* next_review stay stored and the users table is as it was.
C26_CardWriteSurvivesFailure ==
    [][/\ (pc["p1"] = "sub_card" /\ pc'["p1"] # "sub_card") =>
              /\ C26_stored(flashcards'[sub["p1"].flashcard_id],
                            sub["p1"].update_card_data)
              /\ upp["p1"] = NoCall
              /\ users' = users
       /\ users' # users => pc["p1"] = "upp_write"
       /\ (pc["p1"] \in {"sub_card", "sub_progress"} /\ ret'.kind = "raised") =>
              /\ C26_stored(flashcards'[sub["p1"].flashcard_id],
                            sub["p1"].update_card_data)
              /\ users' = users
       /\ pc["p1"] = "sub_progress" =>
              /\ flashcards' = flashcards
              /\ C26_stored(flashcards[sub["p1"].flashcard_id],
                            sub["p1"].update_card_data)]_vars

\* "u2" answered card "c2" correctly for the first time; the progress update
\* has just raised "User not found"; the card holds score 0.1, one review and
\* a next review date, and the users table holds the untouched row of "u1"
C26_Witness ==
    /\ ret.kind = "raised"
    /\ ret.op = "update_user_progress"
    /\ ret.error = "User not found"
    /\ sub["p1"].flashcard_id = "c2"
    /\ sub["p1"].is_correct
    /\ sub["p1"].card.times_reviewed = 0
    /\ flashcards["c2"].performance_score = FRat(1, 10)
    /\ flashcards["c2"].times_reviewed = 1
    /\ flashcards["c2"].next_review # None
    /\ users = [u \in {"u1"} |-> new_user]

(***************************************************************************)
(* submit_answer for a user about to reach the next level: easy and hard   *)
(* cards, fast and slow answers, no streak and a long one.                 *)
(***************************************************************************)
MaxLevelAnswers == 3

\* a user with xp XP who last studied on day 0 and has a streak of n days
LevelUser(xp, n) ==
    [xp_points |-> xp, level |-> _calculate_level(xp), current_streak |-> n,
     last_study_date |-> isoformat(0)]

InitLevelUp ==
    /\ InitHandlers
    /\ users \in {[u \in {"u1"} |-> row] :
                     row \in {new_user, LevelUser(30, 10), LevelUser(90, 12)}}
    /\ study_sessions = EmptyBag
    /\ achievements = EmptyBag
    /\ \E difficulty_level \in {"easy", "hard"} :
           flashcards = [c \in {"c1"} |->
                            new_flashcard("u1", <<"A", "b", " ">>, "short_answer",
                                          None, difficulty_level)]
    /\ tz = 0
    /\ xpc = NoXpc
    /\ nrd = NoNrd
    /\ lvl = NoLvl

NextLevelUp ==
    \/ \E user_answer \in {<<"a", "b">>, <<"b", "a">>}, time_taken \in {3, 25} :
           SubReadCard("p1", "u1", "c1", user_answer, time_taken, MaxLevelAnswers)
    \/ SubReadUser("p1")
    \/ SubWriteCard("p1")
    \/ SubWriteCardRaises("p1")
    \/ SubProgress("p1")
    \/ UppCompute("p1")
    \/ UppWrite("p1")

SpecLevelUp == InitLevelUp /\ [][NextLevelUp]_vars

\* C29: with answers submitted one at a time, no step lowers a user's stored
\* level, no step raises it by more than one, and the XP submit_answer
\* computes for an answer is at most 72.
C29_LevelStepsByOne ==
    [][/\ \A u \in DOMAIN users :
              /\ users'[u].level >= users[u].level
              /\ users'[u].level <= users[u].level + 1
       /\ sub'["p1"].total_xp <= 72]_vars

\* a correct fast answer to a hard card by a user with 90 XP and a streak of
\* 12 earned 72 XP, and the progress update took the user from level 1 to 2
C29_Witness ==
    /\ ret.kind = "ok"
    /\ ret.op = "update_user_progress"
    /\ sub["p1"].total_xp = 72
    /\ ret.call.xp_earned = 72
    /\ ret.call.user.xp_points = 90
    /\ ret.call.user.level = 1
    /\ users["u1"].xp_points = 162
    /\ users["u1"].level = 2

(***************************************************************************)
(* The verdict of submit_answer: cards of several question types, with and *)
(* without options, whose stored answer is "Ab ", and the answers "", " ", *)
(* "b", " aB" and "ba".                                                    *)
(***************************************************************************)
MaxJudgedAnswers == 2

QuestionTypes == {"multiple_choice", "short_answer", "fill_blank"}

UserAnswers == {<<>>, <<" ">>, <<"b">>, <<" ", "a", "B">>, <<"b", "a">>}

InitJudge ==
    /\ InitHandlers
    /\ InitTables
    /\ \E question_type \in QuestionTypes,
          options \in {None, <<<<"A", "b", " ">>, <<"b", "a">>>>} :
           flashcards = [c \in {"c1"} |->
                            new_flashcard("u1", <<"A", "b", " ">>, question_type,
                                          options, "hard")]
    /\ tz = 0
    /\ xpc = NoXpc
    /\ nrd = NoNrd
    /\ lvl = NoLvl

NextJudge ==
    \/ \E user_answer \in UserAnswers :
           SubReadCard("p1", "u1", "c1", user_answer, 3, MaxJudgedAnswers)
    \/ SubReadUser("p1")
    \/ SubWriteCard("p1")
    \/ SubWriteCardRaises("p1")
    \/ SubProgress("p1")
    \/ UppCompute("p1")
    \/ UppWrite("p1")

SpecJudge == InitJudge /\ [][NextJudge]_vars

\* the answers of UserAnswers, lower-cased and trimmed
C30_trimmed(user_answer) ==
    CASE user_answer = <<>> -> <<>>
      [] user_answer = <<" ">> -> <<>>
      [] user_answer = <<"b">> -> <<"b">>
      [] user_answer = <<" ", "a", "B">> -> <<"a", "b">>
      [] user_answer = <<"b", "a">> -> <<"b", "a">>

\* the verdict on an answer to a card whose stored answer, lower-cased and
\* trimmed, is "ab": its substrings among the answers are "", "b" and "ab"
C30_verdict(card, user_answer) ==
    IF card.question_type = "multiple_choice"
    THEN card.options # None /\ C30_trimmed(user_answer) = <<"a", "b">>
    ELSE C30_trimmed(user_answer) \in {<<>>, <<"b">>, <<"a", "b">>}

\* C30: the verdict of submit_answer on a multiple-choice card is "correct"
\* iff the card has options and the trimmed lower-cased answers are equal; on
\* any other card iff the trimmed lower-cased user answer equals or is a
\* substring of the stored one, so an empty or blank answer is correct there;
\* and the XP the handler computes is positive for a correct verdict and 0
\* for a wrong one.
C30_VerdictAndXp ==
    /\ pc["p1"] \in {"sub_user", "sub_card", "sub_progress"} =>
           sub["p1"].is_correct = C30_verdict(sub["p1"].card, sub["p1"].user_answer)
    /\ pc["p1"] \in {"sub_card", "sub_progress"} =>
           /\ sub["p1"].is_correct => sub["p1"].total_xp > 0
           /\ ~sub["p1"].is_correct => sub["p1"].total_xp = 0
           /\ (sub["p1"].card.question_type # "multiple_choice"
                  /\ strip(sub["p1"].user_answer) = <<>>) =>
                  sub["p1"].total_xp > 0

\* a blank answer to a fill-in card has been judged correct and the handler
\* has computed 36 XP for it
C30_Witness ==
    /\ pc["p1"] = "sub_card"
    /\ sub["p1"].card.question_type = "fill_blank"
    /\ sub["p1"].user_answer = <<" ">>
    /\ sub["p1"].is_correct
    /\ sub["p1"].total_xp = 36
====
